---- MODULE Spec2Model ----
(***************************************************************************)
(* Download/prefetch coordination of course modules.                       *)
(*                                                                         *)
(* CoreCourseActivityPrefetchHandlerBase.prefetchPackage (activities) and  *)
(* CoreCourseResourcePrefetchHandlerBase.downloadOrPrefetch (resources)    *)
(* run on a single-threaded event loop.  Every action below is one         *)
(* synchronous turn: a call of one of the two methods, or the callback     *)
(* that runs when an awaited operation (a status write, the work function, *)
(* loading the contents) settles.                                          *)
(*                                                                         *)
(* The key of a package is (site, component, module id).  A handler has a  *)
(* fixed component and the model has one site, so a key is a module id;    *)
(* activities and resources are handled by different handlers and have     *)
(* different ids.                                                          *)
(***************************************************************************)
EXTENDS Integers, FiniteSets, Sequences, TLC

\* ----- bounds -----
MaxActivity == 2      \* activity modules 1..MaxActivity
MaxResource == 1      \* resource modules MaxActivity+1..MaxActivity+MaxResource
MaxCalls == 2         \* calls made within one process lifetime
MaxPromises == 3      \* promises in the list given to allPromises
MaxEntries == 3       \* entries in the list given to executeOrderedPromises
MaxEvents == 2        \* PACKAGE_STATUS_CHANGED events triggered for the module displayed
MaxCourses == 1       \* courses 1..MaxCourses whose notes are synchronised
MaxNotes == 2         \* notes written offline within one process lifetime
MaxSyncs == 2         \* calls of syncNotes within one process lifetime
MaxPosts == 1         \* posts 1..MaxPosts replied to
MaxForumCalls == 2    \* calls of addNewDiscussion or replyPost within one process lifetime

Activities == 1..MaxActivity
Resources == (MaxActivity + 1)..(MaxActivity + MaxResource)
ModuleIds == Activities \cup Resources
CallIds == 1..MaxCalls
Courses == 1..MaxCourses
Notes == 1..MaxNotes
SyncIds == 1..MaxSyncs
Posts == 1..MaxPosts
ForumCallIds == 1..MaxForumCalls

\* ----- JavaScript values (typeof is the type field) -----
Str(s) == [type |-> "string", v |-> s]
Undefined == [type |-> "undefined", v |-> ""]
Num(s) == [type |-> "number", v |-> s]
Arr == [type |-> "object", v |-> "array"]

\* Values a work function may resolve with, and errors it may reject with.
Results == {Str("v2"), Undefined, Num("7")}
Errors == {Str("boom")}
\* translate.instant('core.networkerrormsg')
NetworkError == Str("core.networkerrormsg")

\* An error object; a property the object does not have is "undefined".
ErrorObject(errorcode, warningcode, message) ==
    [type |-> "object", v |-> "error", errorcode |-> errorcode,
     warningcode |-> warningcode, message |-> message]
\* error.<property>, undefined on a string.
Property(error, name) == IF error.type = "object" THEN error[name] ELSE "undefined"

\* Error codes isWebServiceError does not take for an error of the WebService.
SiteErrorCodes == {"invalidtoken", "userdeleted", "upgraderunning", "forcepasswordchangenotice",
                   "usernotfullysetup", "sitepolicynotagreed", "sitemaintenance"}
TokenExpired == "Invalid token - token expired"

\* ----- CoreConstants: package statuses -----
NOT_DOWNLOADED == "notdownloaded"
DOWNLOADING == "downloading"
DOWNLOADED == "downloaded"
OUTDATED == "outdated"
NoStatus == "none"    \* no previousStatus captured

\* ----- Status Store (filepool packages table) -----
NoEntry == [status |-> NoStatus, previous |-> NoStatus, extra |-> Undefined]
OutdatedEntry == [status |-> OUTDATED, previous |-> NoStatus, extra |-> Str("v1")]
\* The record left by a process that stopped while it was downloading again a
\* package it had DOWNLOADED with extra "v1".
StaleEntry == [status |-> DOWNLOADING, previous |-> DOWNLOADED, extra |-> Str("v1")]
\* Records the store may hold when the process starts: the store persists
\* across restarts, the OngoingDownload map does not.  Keys are independent,
\* so a behaviour starts with every key in the same one of these records.
InitialEntries == {NoEntry, OutdatedEntry, StaleEntry}

\* Stored status of an entry; an absent record is NOT_DOWNLOADED.
StatusOf(entry) == IF entry.status = NoStatus THEN NOT_DOWNLOADED ELSE entry.status

\* filepoolProvider.storePackageStatus(siteId, status, component, id, extra):
\* captures the current status as previousStatus when moving to DOWNLOADING
\* (nothing changes if the status already is DOWNLOADING), clears
\* previousStatus on DOWNLOADING -> DOWNLOADED, and keeps the stored extra
\* when no extra is passed.
storePackageStatus(entry, status, extra) ==
    IF status = DOWNLOADING /\ entry.status = DOWNLOADING THEN entry
    ELSE [status |-> status,
          previous |-> IF status = DOWNLOADING THEN entry.status
                       ELSE IF status = DOWNLOADED /\ entry.status = DOWNLOADING THEN NoStatus
                       ELSE entry.previous,
          extra |-> IF extra.type = "undefined" THEN entry.extra ELSE extra]

\* filepoolProvider.setPackagePreviousStatus(siteId, component, id):
\* the status goes back to the captured previousStatus, NOT_DOWNLOADED if
\* none was captured.
setPackagePreviousStatus(entry) ==
    IF entry.status = NoStatus THEN entry
    ELSE [entry EXCEPT !.status = IF entry.previous = NoStatus THEN NOT_DOWNLOADED
                                   ELSE entry.previous]

\* ----- state -----
VARIABLES
    online,             \* appProvider.isOnline()
    packages,           \* status store: module id -> entry
    downloadPromises,   \* OngoingDownload map of the handlers: module id -> call id of the download, 0 if none
    calls,              \* call id -> the call, its returned promise and the position of its promise chain
    component,          \* CoreCourseModuleComponent: the fields of the component
    statusPromise,      \* CoreCourseModuleComponent: the promise of getModuleStatus the setter waits for
    notified,           \* the PACKAGE_STATUS_CHANGED events triggered so far
    updates,            \* the statuses handlerData.updateStatus has been called with
    promises,           \* allPromises: the promises of the list
    handled,            \* allPromises: the promises whose catch() and finally() callbacks have run
    count,              \* allPromises: let count
    caught,             \* allPromises: let error
    result,             \* allPromises: the promise returned
    entries,            \* executeOrderedPromises: orderedPromisesData
    funcs,              \* executeOrderedPromises: the promise each data.func returned
    jobs,               \* executeOrderedPromises: the finally() callbacks queued to run, in order
    called,             \* executeOrderedPromises: the entries whose data.func was invoked, in order
    offlineNotes,       \* AddonNotesOfflineProvider: course id -> the notes stored to be sent
    noteCount,          \* the notes written offline so far
    syncPromises,       \* CoreSyncBaseProvider: course id -> sync id of the ongoing sync, 0 if none
    syncs,              \* sync id -> the call of syncNotes, its returned promise and the position of its chain
    discussions,        \* AddonModForumOfflineProvider: timecreated -> the new discussion stored, if any
    replies,            \* AddonModForumOfflineProvider: post id -> the reply stored, if any
    forumCalls          \* call id -> the call of addNewDiscussion or replyPost and its position

prefetchVars == <<online, packages, downloadPromises, calls>>
moduleVars == <<component, statusPromise, notified, updates>>
utilsVars == <<promises, handled, count, caught, result, entries, funcs, jobs, called>>
notesVars == <<offlineNotes, noteCount, syncPromises, syncs>>
forumVars == <<discussions, replies, forumCalls>>
offlineVars == <<notesVars, forumVars>>
vars == <<prefetchVars, moduleVars, utilsVars, offlineVars>>

Pending == [state |-> "pending", value |-> Undefined]
Resolved(v) == [state |-> "resolved", value |-> v]
Rejected(e) == [state |-> "rejected", value |-> e]

\* A call slot that has not been used.
\*   op          method called
\*   id          module.id
\*   promise     call id whose promise was returned to this caller
\*   kind        which promise of that call: "ongoing" (the OngoingDownload
\*               promise), "chain" (prefetchPromise itself), "rejected"
\*   pc          position of the promise chain this call started
\*   chain       outcome of prefetchPromise
\*   held        value carried by the pending step (extra to store, error caught)
\*   sawOngoing  OngoingDownload entry of the key when the call was made
\*   wasOnline   isOnline() when the call was made
\*   startEntry  stored record of the key when the call was made
\*   invoked     number of invocations of the work function made by this call
\*   fnResult    outcome of the work function
\*   dirPath     downloadOrPrefetch was called with dirPath
\*   intro       the download of the intro files, started apart when dirPath is given
\*   pkg         the download of the package, position and outcome, when dirPath is given
\*   failed      the status write of the chain that was rejected by the store
NoCall == [op |-> "none", id |-> 0, promise |-> 0, kind |-> "none", pc |-> "none",
           chain |-> Pending, held |-> Undefined, sawOngoing |-> 0, wasOnline |-> FALSE,
           startEntry |-> NoEntry, invoked |-> 0, fnResult |-> Pending,
           dirPath |-> FALSE, intro |-> "none", pkg |-> "none", failed |-> "none"]

\* CoreCourseModuleComponent after construction, for module id.
\*   module              module.id
\*   showDownloadButton  module.handlerData.showDownloadButton
\*   updateStatus        module.handlerData.updateStatus is defined
\*   statusObserver      the observer of PACKAGE_STATUS_CHANGED is registered
\*   phase               "constructed", "initialized" (ngOnInit), "destroyed" (ngOnDestroy)
NewComponent(id) ==
    [module |-> id, showDownloadButton |-> FALSE, updateStatus |-> FALSE,
     downloadEnabled |-> FALSE, statusCalculated |-> FALSE,
     spinner |-> FALSE, showDownload |-> FALSE, showRefresh |-> FALSE,
     statusObserver |-> FALSE, phase |-> "constructed"]

\* No component is displayed.
NoModule ==
    /\ component = NewComponent(0)
    /\ statusPromise = [state |-> "none", changed |-> FALSE, value |-> NoStatus]
    /\ notified = << >>
    /\ updates = << >>

\* Neither allPromises nor executeOrderedPromises has been called.
NoUtils ==
    /\ promises = << >>
    /\ handled = << >>
    /\ count = 0
    /\ caught = Undefined
    /\ result = Pending
    /\ entries = << >>
    /\ funcs = << >>
    /\ jobs = << >>
    /\ called = << >>

\* A slot of syncNotes that has not been used.
\*   op          method called
\*   course      courseId
\*   promise     sync id whose promise was returned to this caller
\*   pc          position of the promise chain this call started
\*   notes       the notes getNotesForCourse resolved with
\*   sent        the notes the server received from this call
\*   deleted     the notes this call deleted from the offline store
\*   errors      const errors
\*   state       state of syncPromise
\*   warnings    const warnings
\*   error       the error syncPromise was rejected with
\*   left        the notes stored for the course when syncPromise settled
\*   sendError   the error addNotesOnline was rejected with
NoSync == [op |-> "none", course |-> 0, promise |-> 0, pc |-> "none", notes |-> {},
           sent |-> {}, deleted |-> {}, errors |-> << >>, state |-> "pending",
           warnings |-> << >>, error |-> Undefined, left |-> {}, sendError |-> Undefined]

\* No note is stored offline and syncNotes has not been called.
NoNotes ==
    /\ offlineNotes = [course \in Courses |-> {}]
    /\ noteCount = 0
    /\ syncPromises = [course \in Courses |-> 0]
    /\ syncs = [s \in SyncIds |-> NoSync]

\* A slot of the forum provider that has not been used.
\*   op            method called
\*   post          postId (replyPost)
\*   forumId       forumId
\*   timeCreated   timeCreated (addNewDiscussion), 0 if not given
\*   allowOffline  allowOffline
\*   pc            position of the promise chain of the call
\*   wasOnline     isOnline() when addNewDiscussion read it
\*   sent          the server received the discussion or the reply
\*   sendError     the error addNewDiscussionOnline was rejected with
\*   stored        this call stored the discussion or the reply offline
\*   result        outcome of the promise returned
\*   left          what the offline store held for the post when the promise settled
NoForumCall == [op |-> "none", post |-> 0, forumId |-> 0, timeCreated |-> 0,
                allowOffline |-> FALSE, pc |-> "none", wasOnline |-> FALSE,
                sent |-> FALSE, sendError |-> Undefined, stored |-> FALSE,
                result |-> Pending, left |-> 0]

\* Nothing of the forum is stored offline and no call has been made.
\* A stored discussion or reply is the id of the call that stored it.
NoForum ==
    /\ discussions = {}
    /\ replies = [post \in Posts |-> 0]
    /\ forumCalls = [c \in ForumCallIds |-> NoForumCall]

NoOffline == NoNotes /\ NoForum

\* No download has been asked for.
NoPrefetch ==
    /\ downloadPromises = [m \in ModuleIds |-> 0]
    /\ calls = [c \in CallIds |-> NoCall]

Init ==
    /\ online \in BOOLEAN
    /\ \E entry \in InitialEntries : packages = [m \in ModuleIds |-> entry]
    /\ NoPrefetch
    /\ NoModule
    /\ NoOffline
    /\ NoUtils

\* ----- CoreCourseModulePrefetchHandlerBase: ongoing downloads -----
isDownloading(id) == downloadPromises[id] # 0
getOngoingDownload(id) == downloadPromises[id]
\* addOngoingDownload(id, promise, siteId): registers promise.finally(delete entry)
\* and returns it.
addOngoingDownload(id, c) == [downloadPromises EXCEPT ![id] = c]

\* The call record filled in by every call of either method.
Called(c, op, id) ==
    [NoCall EXCEPT !.op = op, !.id = id, !.sawOngoing = downloadPromises[id],
                   !.wasOnline = online, !.startEntry = packages[id]]

\* Call slots are used in order.
NextCall(c) == calls[c].op = "none" /\ \A d \in 1..(c - 1) : calls[d].op # "none"

\* ----- CoreCourseActivityPrefetchHandlerBase -----
\* Mutation: the connectivity check is missing.
CannotPrefetch_skipped == FALSE
\* if (!this.appProvider.isOnline())
CannotPrefetch == ~online

\* Mutation: the in-flight check is missing.
AlreadyDownloading_never(id) == FALSE
\* Mutation: a stored DOWNLOADING status counts as a download in flight.
AlreadyDownloading_orStatus(id) == isDownloading(id) \/ packages[id].status = DOWNLOADING
\* Mutation: a download in flight for any module counts.
AlreadyDownloading_anyKey(id) == \E m \in ModuleIds : isDownloading(m)
\* if (this.isDownloading(module.id, siteId))
AlreadyDownloading(id) == isDownloading(id)

\* Mutation: the download is registered but prefetchPromise itself is returned.
ReturnedKind_chain == "chain"
\* return this.addOngoingDownload(module.id, prefetchPromise, siteId);
ReturnedKind == "ongoing"

\* Mutation: the chain is started without registering it as ongoing.
prefetchPackage_unregistered(c, id) ==
    /\ NextCall(c)
    /\ id \in Activities
    /\ IF CannotPrefetch
       THEN /\ calls' = [calls EXCEPT ![c] =
                    [Called(c, "prefetchPackage", id) EXCEPT
                        !.promise = c, !.kind = "rejected", !.pc = "done",
                        !.chain = Rejected(NetworkError)]]
            /\ UNCHANGED <<packages, downloadPromises>>
       ELSE IF AlreadyDownloading(id)
       THEN /\ calls' = [calls EXCEPT ![c] =
                    [Called(c, "prefetchPackage", id) EXCEPT
                        !.promise = getOngoingDownload(id), !.kind = "ongoing"]]
            /\ UNCHANGED <<packages, downloadPromises>>
       ELSE /\ calls' = [calls EXCEPT ![c] =
                    [Called(c, "prefetchPackage", id) EXCEPT
                        !.promise = c, !.kind = ReturnedKind, !.pc = "setDownloading"]]
            /\ UNCHANGED <<packages, downloadPromises>>
    /\ UNCHANGED online
    /\ UNCHANGED <<moduleVars, utilsVars, offlineVars>>

\* Mutation: the in-flight check is made before the connectivity check.
prefetchPackage_dedupFirst(c, id) ==
    /\ NextCall(c)
    /\ id \in Activities
    /\ IF CannotPrefetch /\ ~AlreadyDownloading(id)
       THEN /\ calls' = [calls EXCEPT ![c] =
                    [Called(c, "prefetchPackage", id) EXCEPT
                        !.promise = c, !.kind = "rejected", !.pc = "done",
                        !.chain = Rejected(NetworkError)]]
            /\ UNCHANGED <<packages, downloadPromises>>
       ELSE IF AlreadyDownloading(id)
       THEN /\ calls' = [calls EXCEPT ![c] =
                    [Called(c, "prefetchPackage", id) EXCEPT
                        !.promise = getOngoingDownload(id), !.kind = "ongoing"]]
            /\ UNCHANGED <<packages, downloadPromises>>
       ELSE /\ calls' = [calls EXCEPT ![c] =
                    [Called(c, "prefetchPackage", id) EXCEPT
                        !.promise = c, !.kind = ReturnedKind, !.pc = "setDownloading"]]
            /\ downloadPromises' = addOngoingDownload(id, c)
            /\ UNCHANGED packages
    /\ UNCHANGED online
    /\ UNCHANGED <<moduleVars, utilsVars, offlineVars>>

\* prefetchPackage(module, courseId, single, downloadFn, siteId)
prefetchPackage(c, id) ==
    /\ NextCall(c)
    /\ id \in Activities
    /\ IF CannotPrefetch
       THEN /\ calls' = [calls EXCEPT ![c] =
                    [Called(c, "prefetchPackage", id) EXCEPT
                        !.promise = c, !.kind = "rejected", !.pc = "done",
                        !.chain = Rejected(NetworkError)]]
            /\ UNCHANGED <<packages, downloadPromises>>
       ELSE IF AlreadyDownloading(id)
       THEN /\ calls' = [calls EXCEPT ![c] =
                    [Called(c, "prefetchPackage", id) EXCEPT
                        !.promise = getOngoingDownload(id), !.kind = "ongoing"]]
            /\ UNCHANGED <<packages, downloadPromises>>
       ELSE /\ calls' = [calls EXCEPT ![c] =
                    [Called(c, "prefetchPackage", id) EXCEPT
                        !.promise = c, !.kind = ReturnedKind, !.pc = "setDownloading"]]
            /\ downloadPromises' = addOngoingDownload(id, c)
            /\ UNCHANGED packages
    /\ UNCHANGED online
    /\ UNCHANGED <<moduleVars, utilsVars, offlineVars>>

\* Mutation: the status is captured as previousStatus whatever it is.
setDownloading_recapture(id) ==
    [status |-> DOWNLOADING, previous |-> StatusOf(packages[id]), extra |-> packages[id].extra]
\* Mutation: the DOWNLOADING write passes an empty extra.
setDownloading_clear(id) == storePackageStatus(packages[id], DOWNLOADING, Str(""))
\* Mutation: a package that is DOWNLOADED is not marked DOWNLOADING.
setDownloading_skip(id) ==
    IF packages[id].status = DOWNLOADED THEN packages[id]
    ELSE storePackageStatus(packages[id], DOWNLOADING, Undefined)
\* setDownloading(id, siteId): storePackageStatus(siteId, DOWNLOADING, component, id)
setDownloading(id) == storePackageStatus(packages[id], DOWNLOADING, Undefined)

\* setDownloaded(id, siteId, extra): storePackageStatus(siteId, DOWNLOADED, component, id, extra)
setDownloaded(id, extra) == storePackageStatus(packages[id], DOWNLOADED, extra)

\* Mutation: the result is stored whatever its type.
AcceptedExtra_any(extra) == extra
\* if (typeof extra != 'string') { extra = ''; }
AcceptedExtra(extra) == IF extra.type # "string" THEN Str("") ELSE extra

\* Mutation: downloadFn is called without waiting for the DOWNLOADING write.
SetDownloadingDone_nowait(c) ==
    /\ calls[c].pc = "setDownloading"
    /\ calls' = [calls EXCEPT ![c].pc = "downloadFn", ![c].invoked = @ + 1]
    /\ UNCHANGED <<online, packages, downloadPromises>>
    /\ UNCHANGED <<moduleVars, utilsVars, offlineVars>>

\* The DOWNLOADING write has completed: the first then() callback calls downloadFn.
SetDownloadingDone(c) ==
    /\ calls[c].pc = "setDownloading"
    /\ packages' = [packages EXCEPT ![calls[c].id] = setDownloading(calls[c].id)]
    /\ calls' = [calls EXCEPT ![c].pc = "downloadFn", ![c].invoked = @ + 1]
    /\ UNCHANGED <<online, downloadPromises>>
    /\ UNCHANGED <<moduleVars, utilsVars, offlineVars>>

\* downloadFn resolved with extra: the second then() callback starts setDownloaded.
DownloadFnResolves(c, extra) ==
    /\ calls[c].pc = "downloadFn"
    /\ calls[c].op = "prefetchPackage"
    /\ calls' = [calls EXCEPT ![c].pc = "setDownloaded", ![c].fnResult = Resolved(extra),
                              ![c].held = AcceptedExtra(extra)]
    /\ UNCHANGED <<online, packages, downloadPromises>>
    /\ UNCHANGED <<moduleVars, utilsVars, offlineVars>>

\* downloadFn rejected with error: the catch() callback starts setPreviousStatusAndReject.
DownloadFnRejects(c, error) ==
    /\ calls[c].pc = "downloadFn"
    /\ calls[c].op = "prefetchPackage"
    /\ calls' = [calls EXCEPT ![c].pc = "setPreviousStatusAndReject",
                              ![c].fnResult = Rejected(error), ![c].held = error]
    /\ UNCHANGED <<online, packages, downloadPromises>>
    /\ UNCHANGED <<moduleVars, utilsVars, offlineVars>>

\* Mutation: the callback returns the work function's result after the write.
ResolvedValue_extra(c) == calls[c].fnResult.value
\* Value prefetchPromise resolves with: what setDownloaded resolved with (nothing).
ResolvedValue(c) == Undefined

\* The DOWNLOADED write has completed: prefetchPromise resolves.
SetDownloadedDone(c) ==
    /\ calls[c].pc = "setDownloaded"
    /\ packages' = [packages EXCEPT ![calls[c].id] = setDownloaded(calls[c].id, calls[c].held)]
    /\ calls' = [calls EXCEPT ![c].pc = "settled", ![c].chain = Resolved(ResolvedValue(c))]
    /\ UNCHANGED <<online, downloadPromises>>
    /\ UNCHANGED <<moduleVars, utilsVars, offlineVars>>

\* Mutation: the promise is rejected without restoring the previous status.
setPreviousStatusAndReject_norestore(c) ==
    /\ calls[c].pc = "setPreviousStatusAndReject"
    /\ calls' = [calls EXCEPT ![c].pc = "settled", ![c].chain = Rejected(calls[c].held)]
    /\ UNCHANGED <<online, packages, downloadPromises>>
    /\ UNCHANGED <<moduleVars, utilsVars, offlineVars>>

\* Mutation: the previous status is restored and the error is swallowed.
setPreviousStatusAndReject_swallow(c) ==
    /\ calls[c].pc = "setPreviousStatusAndReject"
    /\ packages' = [packages EXCEPT ![calls[c].id] = setPackagePreviousStatus(packages[calls[c].id])]
    /\ calls' = [calls EXCEPT ![c].pc = "settled", ![c].chain = Resolved(Undefined)]
    /\ UNCHANGED <<online, downloadPromises>>
    /\ UNCHANGED <<moduleVars, utilsVars, offlineVars>>

\* setPreviousStatusAndReject(id, error, siteId): the previous status has been
\* restored and prefetchPromise rejects with the error.
setPreviousStatusAndReject(c) ==
    /\ calls[c].pc = "setPreviousStatusAndReject"
    /\ packages' = [packages EXCEPT ![calls[c].id] = setPackagePreviousStatus(packages[calls[c].id])]
    /\ calls' = [calls EXCEPT ![c].pc = "settled", ![c].chain = Rejected(calls[c].held)]
    /\ UNCHANGED <<online, downloadPromises>>
    /\ UNCHANGED <<moduleVars, utilsVars, offlineVars>>

\* The finally() callback registered by addOngoingDownload: the entry of the
\* key is deleted, then the OngoingDownload promise settles as prefetchPromise did.
OngoingDownloadFinally(c) ==
    /\ calls[c].pc = "settled"
    /\ downloadPromises' = [downloadPromises EXCEPT ![calls[c].id] = 0]
    /\ calls' = [calls EXCEPT ![c].pc = "done"]
    /\ UNCHANGED <<online, packages>>
    /\ UNCHANGED <<moduleVars, utilsVars, offlineVars>>

\* ----- CoreCourseResourcePrefetchHandlerBase -----
\* if (!this.appProvider.isOnline())
CannotDownload == ~online

\* downloadOrPrefetch(module, courseId, prefetch), called without dirPath
downloadOrPrefetch(c, id) ==
    /\ NextCall(c)
    /\ id \in Resources
    /\ IF CannotDownload
       THEN /\ calls' = [calls EXCEPT ![c] =
                    [Called(c, "downloadOrPrefetch", id) EXCEPT
                        !.promise = c, !.kind = "rejected", !.pc = "done",
                        !.chain = Rejected(NetworkError)]]
            /\ UNCHANGED <<packages, downloadPromises>>
       ELSE IF isDownloading(id)
       THEN /\ calls' = [calls EXCEPT ![c] =
                    [Called(c, "downloadOrPrefetch", id) EXCEPT
                        !.promise = getOngoingDownload(id), !.kind = "ongoing"]]
            /\ UNCHANGED <<packages, downloadPromises>>
       ELSE /\ calls' = [calls EXCEPT ![c] =
                    [Called(c, "downloadOrPrefetch", id) EXCEPT
                        !.promise = c, !.kind = "ongoing", !.pc = "loadContents"]]
            /\ downloadPromises' = addOngoingDownload(id, c)
            /\ UNCHANGED packages
    /\ UNCHANGED online
    /\ UNCHANGED <<moduleVars, utilsVars, offlineVars>>

\* loadContents resolved and getIntroFiles returned the intro files: the
\* callback hands intro and content files to the filepool's downloadPackage
\* or prefetchPackage (downloadFn).
LoadContentsDone(c) ==
    /\ calls[c].pc = "loadContents"
    /\ ~calls[c].dirPath
    /\ calls' = [calls EXCEPT ![c].pc = "downloadPackage", ![c].invoked = @ + 1]
    /\ UNCHANGED <<online, packages, downloadPromises>>
    /\ UNCHANGED <<moduleVars, utilsVars, offlineVars>>

\* loadContents (contents are loaded ignoring the cache) rejected:
\* prefetchPromise rejects with its error.
LoadContentsFails(c, error) ==
    /\ calls[c].pc = "loadContents"
    /\ calls' = [calls EXCEPT ![c].pc = "settled", ![c].chain = Rejected(error)]
    /\ UNCHANGED <<online, packages, downloadPromises>>
    /\ UNCHANGED <<moduleVars, utilsVars, offlineVars>>

\* The filepool has marked the package DOWNLOADING and downloads its files.
FilepoolSetDownloading(c) ==
    /\ calls[c].pc = "downloadPackage"
    /\ packages' = [packages EXCEPT ![calls[c].id] = storePackageStatus(@, DOWNLOADING, Undefined)]
    /\ calls' = [calls EXCEPT ![c].pc = "downloadFiles"]
    /\ UNCHANGED <<online, downloadPromises>>
    /\ UNCHANGED <<moduleVars, utilsVars, offlineVars>>

\* The filepool has downloaded the files and marked the package DOWNLOADED:
\* Promise.all(promises) resolves with the array of results.
FilepoolDownloadSucceeds(c) ==
    /\ calls[c].pc = "downloadFiles"
    /\ packages' = [packages EXCEPT ![calls[c].id] = storePackageStatus(@, DOWNLOADED, Undefined)]
    /\ calls' = [calls EXCEPT ![c].pc = "settled", ![c].fnResult = Resolved(Undefined),
                              ![c].chain = Resolved(Arr)]
    /\ UNCHANGED <<online, downloadPromises>>
    /\ UNCHANGED <<moduleVars, utilsVars, offlineVars>>

\* A file failed to download: the filepool has restored the previous status
\* and Promise.all(promises) rejects with the error.
FilepoolDownloadFails(c, error) ==
    /\ calls[c].pc = "downloadFiles"
    /\ packages' = [packages EXCEPT ![calls[c].id] = setPackagePreviousStatus(@)]
    /\ calls' = [calls EXCEPT ![c].pc = "settled", ![c].fnResult = Rejected(error),
                              ![c].chain = Rejected(error)]
    /\ UNCHANGED <<online, downloadPromises>>
    /\ UNCHANGED <<moduleVars, utilsVars, offlineVars>>

\* ----- environment -----
\* The network comes or goes.
NetworkChange ==
    /\ online' = ~online
    /\ UNCHANGED <<packages, downloadPromises, calls>>
    /\ UNCHANGED <<moduleVars, utilsVars, offlineVars>>

\* ----- CoreCourseResourcePrefetchHandlerBase, called with dirPath -----
\* downloadOrPrefetch(module, courseId, prefetch, dirPath), as
\* AddonModResourcePrefetchHandler calls it for a resource displayed in an iframe
downloadOrPrefetchDirPath(c, id) ==
    /\ NextCall(c)
    /\ id \in Resources
    /\ IF CannotDownload
       THEN /\ calls' = [calls EXCEPT ![c] =
                    [Called(c, "downloadOrPrefetch", id) EXCEPT
                        !.dirPath = TRUE, !.promise = c, !.kind = "rejected", !.pc = "done",
                        !.chain = Rejected(NetworkError)]]
            /\ UNCHANGED <<packages, downloadPromises>>
       ELSE IF isDownloading(id)
       THEN /\ calls' = [calls EXCEPT ![c] =
                    [Called(c, "downloadOrPrefetch", id) EXCEPT
                        !.dirPath = TRUE, !.promise = getOngoingDownload(id), !.kind = "ongoing"]]
            /\ UNCHANGED <<packages, downloadPromises>>
       ELSE /\ calls' = [calls EXCEPT ![c] =
                    [Called(c, "downloadOrPrefetch", id) EXCEPT
                        !.dirPath = TRUE, !.promise = c, !.kind = "ongoing", !.pc = "loadContents"]]
            /\ downloadPromises' = addOngoingDownload(id, c)
            /\ UNCHANGED packages
    /\ UNCHANGED online
    /\ UNCHANGED <<moduleVars, utilsVars, offlineVars>>

\* loadContents resolved and getIntroFiles returned the intro files: the
\* callback starts downloadOrPrefetchFiles for the intro files and downloadFn
\* for the content files, and returns Promise.all of the two.
LoadContentsDoneDirPath(c) ==
    /\ calls[c].pc = "loadContents"
    /\ calls[c].dirPath
    /\ calls' = [calls EXCEPT ![c].pc = "all", ![c].intro = "pending",
                              ![c].pkg = "downloadPackage", ![c].invoked = @ + 1]
    /\ UNCHANGED <<online, packages, downloadPromises>>
    /\ UNCHANGED <<moduleVars, utilsVars, offlineVars>>

\* Promise.all of call cl after one of its two promises has settled: it
\* rejects with the first rejection and resolves once both have resolved.
PromiseAll(cl, error) ==
    IF cl.pc # "all" THEN cl
    ELSE IF error # Undefined
         THEN [cl EXCEPT !.pc = "settled", !.chain = Rejected(error)]
    ELSE IF cl.intro = "resolved" /\ cl.pkg = "resolved"
         THEN [cl EXCEPT !.pc = "settled", !.chain = Resolved(Arr)]
    ELSE cl

\* downloadOrPrefetchFiles has downloaded the intro files.
IntroFilesDownloaded(c) ==
    /\ calls[c].intro = "pending"
    /\ calls' = [calls EXCEPT ![c] = PromiseAll([@ EXCEPT !.intro = "resolved"], Undefined)]
    /\ UNCHANGED <<online, packages, downloadPromises>>
    /\ UNCHANGED <<moduleVars, utilsVars, offlineVars>>

\* An intro file failed to download.
IntroFilesFail(c, error) ==
    /\ calls[c].intro = "pending"
    /\ calls' = [calls EXCEPT ![c] = PromiseAll([@ EXCEPT !.intro = "rejected"], error)]
    /\ UNCHANGED <<online, packages, downloadPromises>>
    /\ UNCHANGED <<moduleVars, utilsVars, offlineVars>>

\* The filepool has marked the package DOWNLOADING and downloads the content files.
ContentSetDownloading(c) ==
    /\ calls[c].pkg = "downloadPackage"
    /\ packages' = [packages EXCEPT ![calls[c].id] = storePackageStatus(@, DOWNLOADING, Undefined)]
    /\ calls' = [calls EXCEPT ![c].pkg = "downloadFiles"]
    /\ UNCHANGED <<online, downloadPromises>>
    /\ UNCHANGED <<moduleVars, utilsVars, offlineVars>>

\* The filepool has downloaded the content files and marked the package DOWNLOADED.
ContentDownloadSucceeds(c) ==
    /\ calls[c].pkg = "downloadFiles"
    /\ packages' = [packages EXCEPT ![calls[c].id] = storePackageStatus(@, DOWNLOADED, Undefined)]
    /\ calls' = [calls EXCEPT ![c] =
            PromiseAll([@ EXCEPT !.pkg = "resolved", !.fnResult = Resolved(Undefined)], Undefined)]
    /\ UNCHANGED <<online, downloadPromises>>
    /\ UNCHANGED <<moduleVars, utilsVars, offlineVars>>

\* A content file failed to download: the filepool has restored the previous status.
ContentDownloadFails(c, error) ==
    /\ calls[c].pkg = "downloadFiles"
    /\ packages' = [packages EXCEPT ![calls[c].id] = setPackagePreviousStatus(@)]
    /\ calls' = [calls EXCEPT ![c] =
            PromiseAll([@ EXCEPT !.pkg = "rejected", !.fnResult = Rejected(error)], error)]
    /\ UNCHANGED <<online, downloadPromises>>
    /\ UNCHANGED <<moduleVars, utilsVars, offlineVars>>

\* The resource handler alone, called with dirPath.
NextDirPath ==
    \/ \E c \in CallIds, id \in Resources : downloadOrPrefetchDirPath(c, id)
    \/ \E c \in CallIds : LoadContentsDoneDirPath(c)
    \/ \E c \in CallIds, error \in Errors : LoadContentsFails(c, error)
    \/ \E c \in CallIds : IntroFilesDownloaded(c)
    \/ \E c \in CallIds, error \in Errors : IntroFilesFail(c, error)
    \/ \E c \in CallIds : ContentSetDownloading(c)
    \/ \E c \in CallIds : ContentDownloadSucceeds(c)
    \/ \E c \in CallIds, error \in Errors : ContentDownloadFails(c, error)
    \/ \E c \in CallIds : OngoingDownloadFinally(c)
    \/ NetworkChange

SpecDirPath == Init /\ [][NextDirPath]_vars

Next ==
    \/ \E c \in CallIds, id \in Activities : prefetchPackage(c, id)
    \/ \E c \in CallIds : SetDownloadingDone(c)
    \/ \E c \in CallIds, extra \in Results : DownloadFnResolves(c, extra)
    \/ \E c \in CallIds, error \in Errors : DownloadFnRejects(c, error)
    \/ \E c \in CallIds : SetDownloadedDone(c)
    \/ \E c \in CallIds : setPreviousStatusAndReject(c)
    \/ \E c \in CallIds : OngoingDownloadFinally(c)
    \/ \E c \in CallIds, id \in Resources : downloadOrPrefetch(c, id)
    \/ \E c \in CallIds : LoadContentsDone(c)
    \/ \E c \in CallIds, error \in Errors : LoadContentsFails(c, error)
    \/ \E c \in CallIds : FilepoolSetDownloading(c)
    \/ \E c \in CallIds : FilepoolDownloadSucceeds(c)
    \/ \E c \in CallIds, error \in Errors : FilepoolDownloadFails(c, error)
    \/ NetworkChange

Spec == Init /\ [][Next]_vars

\* ----- what a caller observes -----
\* Call c started a download of its own (it neither was rejected for lack of
\* network nor was handed the promise of a download in flight).
Started(c) == calls[c].op # "none" /\ calls[c].promise = c /\ calls[c].kind # "rejected"

\* Positions of a promise chain whose OngoingDownload promise is pending.
InFlight == {"setDownloading", "downloadFn", "setDownloaded", "setPreviousStatusAndReject",
             "loadContents", "downloadPackage", "downloadFiles", "settled"}

\* The promise returned to the caller of c has settled.
CallerSettled(c) ==
    /\ calls[c].op # "none"
    /\ calls[c].promise # 0
    /\ IF calls[c].kind = "chain"
       THEN calls[calls[c].promise].pc \in {"settled", "done"}
       ELSE calls[calls[c].promise].pc = "done"

\* How the promise returned to the caller of c has settled, Pending if it has not.
Outcome(c) == IF CallerSettled(c) THEN calls[calls[c].promise].chain ELSE Pending

\* A download of the same key was started by a later call.
LaterAttempt(c) == \E d \in CallIds : d > c /\ calls[d].id = calls[c].id /\ Started(d)

\* Call c is being made in this step.
IsCalled(c) == calls[c].op = "none" /\ calls'[c].op # "none"

\* prefetchPackage call c started a download whose work function has rejected,
\* the call has settled and no later download of the key has started.
FailedAttempt(c) ==
    /\ calls[c].op = "prefetchPackage"
    /\ Started(c)
    /\ calls[c].fnResult.state = "rejected"
    /\ CallerSettled(c)
    /\ ~LaterAttempt(c)

\* prefetchPackage call c started a download whose work function has resolved,
\* the DOWNLOADED write is complete and no later download of the key has started.
SucceededAttempt(c) ==
    /\ calls[c].op = "prefetchPackage"
    /\ Started(c)
    /\ calls[c].fnResult.state = "resolved"
    /\ calls[c].pc \in {"settled", "done"}
    /\ ~LaterAttempt(c)

\* ----- claims -----

\* C1: for every key and any interleaving of prefetchPackage calls, at most one
\* invocation of the work function is executing at any time, and a download
\* that has been started is registered in the OngoingDownload map from the
\* turn of the call until its finally() callback, so no second caller passes
\* the in-flight check meanwhile.
C1_AtMostOneWorkFn ==
    \A id \in Activities :
        /\ Cardinality({c \in CallIds : calls[c].op = "prefetchPackage" /\ calls[c].id = id
                                        /\ calls[c].pc = "downloadFn"}) <= 1
        /\ \A c \in CallIds :
              (calls[c].op = "prefetchPackage" /\ calls[c].id = id /\ calls[c].pc \in InFlight)
                  => downloadPromises[id] = c

\* A second prefetchPackage call was made for a key, online, while the work
\* function of the first is executing.
C1_Witness ==
    \E c, d \in CallIds :
        /\ c # d
        /\ calls[c].op = "prefetchPackage" /\ calls[c].pc = "downloadFn"
        /\ calls[d].op = "prefetchPackage" /\ calls[d].id = calls[c].id
        /\ calls[d].wasOnline /\ calls[d].sawOngoing = c

\* prefetchPackage call c was made online while a download of its key was in flight.
MadeWhileInFlight(c) ==
    calls[c].op = "prefetchPackage" /\ calls[c].wasOnline /\ calls[c].sawOngoing # 0

\* C2: a prefetchPackage call made online while a download of the key is in
\* flight does not invoke its work function and starts no chain of its own; it
\* holds the promise of the download in flight and so settles with the same
\* outcome; the work function of that download is invoked once; and the call
\* changes neither the download in flight, nor the store, nor the map.
C2_AttachesToInFlight ==
    /\ [](\A c \in CallIds : MadeWhileInFlight(c) =>
            /\ calls[c].invoked = 0
            /\ calls[c].pc = "none"
            /\ calls[c].promise = calls[c].sawOngoing
            /\ calls[c].kind = "ongoing"
            /\ calls[calls[c].sawOngoing].invoked <= 1
            /\ Outcome(c) = Outcome(calls[c].sawOngoing)
            /\ (CallerSettled(c) => calls[calls[c].sawOngoing].invoked = 1))
    /\ [][\A c \in CallIds :
            (IsCalled(c) /\ calls'[c].op = "prefetchPackage" /\ online /\ downloadPromises[calls'[c].id] # 0)
                => /\ \A d \in CallIds \ {c} : calls'[d] = calls[d]
                   /\ UNCHANGED <<packages, downloadPromises>>]_vars

\* A call made while a download was in flight has settled together with it.
C2_Witness ==
    \E c \in CallIds : MadeWhileInFlight(c) /\ CallerSettled(c)
                       /\ Outcome(c).state = "rejected"

\* The status a failed attempt that started from entry restores: the status
\* the key had when the attempt started, or, when that was a stale
\* DOWNLOADING, the previousStatus of the record (NOT_DOWNLOADED if none).
RolledBackStatus(entry) ==
    IF entry.status = DOWNLOADING
    THEN (IF entry.previous = NoStatus THEN NOT_DOWNLOADED ELSE entry.previous)
    ELSE StatusOf(entry)

\* C3 as stated: if the stored status is S when prefetchPackage starts an
\* attempt and the work function rejects, then once the call has settled the
\* stored status equals S exactly.
C3_Original ==
    \A c \in CallIds : FailedAttempt(c) =>
        StatusOf(packages[calls[c].id]) = StatusOf(calls[c].startEntry)

\* C3 as amended: after a failed attempt the stored status equals S exactly when
\* S is not DOWNLOADING (it is neither left DOWNLOADING nor DOWNLOADED unless S
\* was DOWNLOADED); when S is a stale DOWNLOADING the status is the
\* previousStatus of the record (NOT_DOWNLOADED if there is none) and the
\* record is not left DOWNLOADING.
C3_Rollback ==
    \A c \in CallIds : FailedAttempt(c) =>
        /\ StatusOf(packages[calls[c].id]) = RolledBackStatus(calls[c].startEntry)
        /\ StatusOf(packages[calls[c].id]) # DOWNLOADING

\* An attempt that started from OUTDATED has failed and settled.
C3_Witness ==
    \E c \in CallIds : FailedAttempt(c) /\ calls[c].startEntry.status = OUTDATED
                       /\ packages[calls[c].id].status = OUTDATED

\* C4: a prefetchPackage or downloadOrPrefetch call made offline rejects at
\* once with the network error, never invokes the work function, creates no
\* OngoingDownload entry and leaves the store as it was.
C4_OfflineNoMutation ==
    /\ [](\A c \in CallIds : (calls[c].op # "none" /\ ~calls[c].wasOnline) =>
            /\ calls[c].invoked = 0
            /\ calls[c].pc = "done"
            /\ Outcome(c) = Rejected(NetworkError)
            /\ \A id \in ModuleIds : downloadPromises[id] # c)
    /\ [][\A c \in CallIds : (IsCalled(c) /\ ~online) =>
            /\ ~calls'[c].wasOnline
            /\ UNCHANGED <<packages, downloadPromises>>
            /\ \A d \in CallIds \ {c} : calls'[d] = calls[d]]_vars

\* Both methods have been called offline, one of them for a key that has a record.
C4_Witness ==
    \E c, d \in CallIds :
        /\ calls[c].op = "prefetchPackage" /\ ~calls[c].wasOnline
        /\ calls[c].startEntry = OutdatedEntry /\ packages[calls[c].id] = OutdatedEntry
        /\ calls[d].op = "downloadOrPrefetch" /\ ~calls[d].wasOnline

\* C5: after a successful prefetchPackage attempt the stored status is
\* DOWNLOADED and the stored extra is the work function's result when that is
\* a string and the empty string when it is anything else.
C5_ExtraRoundTrip ==
    \A c \in CallIds : SucceededAttempt(c) =>
        /\ packages[calls[c].id].status = DOWNLOADED
        /\ packages[calls[c].id].extra =
              (IF calls[c].fnResult.value.type = "string" THEN calls[c].fnResult.value ELSE Str(""))

\* A work function resolved with a number for a key whose extra was "v1".
C5_Witness ==
    \E c \in CallIds : SucceededAttempt(c) /\ calls[c].fnResult.value = Num("7")
                       /\ calls[c].startEntry.extra = Str("v1")

\* Call d holds the promise of the download started by call c (c itself or a
\* caller that was handed the promise in flight).
HoldsPromiseOf(d, c) == calls[d].op # "none" /\ calls[d].kind # "rejected" /\ calls[d].promise = c

\* C6 as stated: when the work function resolves with R, the promise returned
\* by prefetchPackage to the initiating caller and to every attached caller
\* resolves with R itself.
C6_Original ==
    \A c, d \in CallIds :
        (SucceededAttempt(c) /\ HoldsPromiseOf(d, c) /\ CallerSettled(d))
            => Outcome(d) = Resolved(calls[c].fnResult.value)

\* C6 as amended: when the work function resolves with R, the promise returned
\* to the initiating caller and to every attached caller resolves, with what
\* the DOWNLOADED status write resolved with (no value), not with R.
C6_ResolvesWithWriteResult ==
    \A c, d \in CallIds :
        (SucceededAttempt(c) /\ HoldsPromiseOf(d, c) /\ CallerSettled(d))
            => Outcome(d) = Resolved(Undefined)

\* The work function resolved with "v2" and the initiating and an attached
\* caller have both settled.
C6_Witness ==
    \E c, d \in CallIds :
        /\ c # d
        /\ SucceededAttempt(c) /\ calls[c].fnResult.value = Str("v2")
        /\ HoldsPromiseOf(d, c) /\ CallerSettled(c) /\ CallerSettled(d)

AllSettled(id) ==
    \A d \in CallIds : (calls[d].op # "none" /\ calls[d].id = id /\ calls[d].kind # "rejected")
                            => CallerSettled(d)

\* C8: when the promise returned by prefetchPackage or downloadOrPrefetch for a
\* download has settled, resolved or rejected, the OngoingDownload entry of
\* that download has been removed, so a call made online for a key all of
\* whose earlier calls have settled finds no entry and starts a download.
C8_EntryRemovedBeforeSettle ==
    /\ [](\A c \in CallIds : (CallerSettled(c) /\ calls[c].kind # "rejected")
            => downloadPromises[calls[c].id] # calls[c].promise)
    /\ [](\A id \in ModuleIds : AllSettled(id) => downloadPromises[id] = 0)
    /\ [][\A c \in CallIds :
            (IsCalled(c) /\ online /\ AllSettled(calls'[c].id))
                => /\ calls'[c].sawOngoing = 0
                   /\ calls'[c].promise = c
                   /\ calls'[c].pc \in {"setDownloading", "loadContents"}
                   /\ downloadPromises'[calls'[c].id] = c]_vars

\* After a failed download of a key has settled, a second call has started a
\* new download of the key.
C8_Witness ==
    \E c, d \in CallIds :
        /\ c < d /\ calls[c].id = calls[d].id
        /\ Started(c) /\ CallerSettled(c) /\ Outcome(c).state = "rejected"
        /\ Started(d) /\ calls[d].sawOngoing = 0 /\ calls[d].invoked = 1

\* C9: a failed prefetchPackage attempt leaves the stored extra unchanged,
\* while the key is marked DOWNLOADING and after the rollback; a record that
\* was DOWNLOADED with extra x is DOWNLOADED with extra x after the rejection.
C9_FailureKeepsExtra ==
    \A c \in CallIds :
        /\ (calls[c].op = "prefetchPackage" /\ Started(c) /\ ~LaterAttempt(c)
                /\ calls[c].pc \in {"downloadFn", "setPreviousStatusAndReject"})
              => packages[calls[c].id].extra = calls[c].startEntry.extra
        /\ FailedAttempt(c)
              => /\ packages[calls[c].id].extra = calls[c].startEntry.extra
                 /\ calls[c].startEntry.status = DOWNLOADED
                        => packages[calls[c].id].status = DOWNLOADED

\* An attempt on a record that was DOWNLOADED with extra "v2" has failed.
C9_Witness ==
    \E c \in CallIds :
        /\ FailedAttempt(c)
        /\ calls[c].startEntry.status = DOWNLOADED /\ calls[c].startEntry.extra = Str("v2")

\* prefetchPackage call c was made online for a key that was DOWNLOADED and had
\* no download in flight.
Redownload(c) ==
    /\ calls[c].op = "prefetchPackage" /\ calls[c].wasOnline
    /\ calls[c].sawOngoing = 0 /\ calls[c].startEntry.status = DOWNLOADED

\* C10: a prefetchPackage call for a key that is DOWNLOADED and has no download
\* in flight starts a download: the work function is invoked again, while it
\* runs the stored status is DOWNLOADING, and when it has succeeded the status
\* is DOWNLOADED again.
C10_RedownloadPermitted ==
    \A c \in CallIds : (Redownload(c) /\ ~LaterAttempt(c)) =>
        /\ Started(c)
        /\ calls[c].pc # "none"
        /\ calls[c].pc = "setDownloading" => calls[c].invoked = 0
        /\ calls[c].pc # "setDownloading" => calls[c].invoked = 1
        /\ calls[c].pc \in {"downloadFn", "setDownloaded", "setPreviousStatusAndReject"}
              => packages[calls[c].id].status = DOWNLOADING
        /\ (calls[c].pc \in {"settled", "done"} /\ calls[c].fnResult.state = "resolved")
              => packages[calls[c].id].status = DOWNLOADED

\* A key that was DOWNLOADED has been downloaded again.
C10_Witness ==
    \E c \in CallIds : Redownload(c) /\ SucceededAttempt(c) /\ CallerSettled(c)
                       /\ packages[calls[c].id].status = DOWNLOADED

\* prefetchPackage call c started a download of its own.
Attempt(c) == calls[c].op = "prefetchPackage" /\ Started(c)

\* C11: within one prefetchPackage attempt the steps are sequential: the work
\* function is invoked by the step that completes the DOWNLOADING write and
\* not before; while it runs the key is DOWNLOADING and nothing has settled;
\* the DOWNLOADED write or the restore is pending only once the work function
\* has settled; prefetchPromise settles only when that final write is
\* complete; and the caller's promise settles only after prefetchPromise.
C11_SequentialSteps ==
    /\ [](\A c \in CallIds : Attempt(c) =>
            /\ calls[c].pc = "setDownloading"
                  => (calls[c].invoked = 0 /\ calls[c].fnResult = Pending /\ calls[c].chain = Pending)
            /\ calls[c].pc = "downloadFn"
                  => /\ calls[c].invoked = 1
                     /\ packages[calls[c].id].status = DOWNLOADING
                     /\ calls[c].fnResult = Pending /\ calls[c].chain = Pending
            /\ calls[c].pc \in {"setDownloaded", "setPreviousStatusAndReject"}
                  => /\ calls[c].fnResult # Pending /\ calls[c].chain = Pending
                     /\ packages[calls[c].id].status = DOWNLOADING
            /\ (calls[c].chain # Pending /\ ~LaterAttempt(c))
                  => /\ calls[c].pc \in {"settled", "done"}
                     /\ packages[calls[c].id].status # DOWNLOADING
            /\ CallerSettled(c) => calls[c].chain # Pending)
    /\ [][\A c \in CallIds :
            /\ (calls[c].op = "prefetchPackage" /\ calls'[c].invoked # calls[c].invoked)
                  => (calls[c].pc = "setDownloading" /\ packages'[calls[c].id].status = DOWNLOADING)
            /\ (Attempt(c) /\ calls[c].chain = Pending /\ calls'[c].chain # Pending)
                  => calls[c].pc \in {"setDownloaded", "setPreviousStatusAndReject"}]_vars

\* An attempt that started from OUTDATED has gone through every step: the work
\* function resolved, the key is DOWNLOADED and the caller's promise has settled.
C11_Witness ==
    \E c \in CallIds :
        /\ Attempt(c) /\ calls[c].startEntry.status = OUTDATED
        /\ calls[c].fnResult.state = "resolved" /\ CallerSettled(c)
        /\ packages[calls[c].id].status = DOWNLOADED

\* ----- CoreCourseModulePrefetchDelegate: status of a module -----
\* A package downloaded by an earlier session.
DownloadedEntry == [status |-> DOWNLOADED, previous |-> NoStatus, extra |-> Str("v1")]
StoredEntries == InitialEntries \cup {DownloadedEntry}
Statuses == {NOT_DOWNLOADED, DOWNLOADING, DOWNLOADED, OUTDATED}

\* getModuleStatus(module, courseId): the stored status, NOT_DOWNLOADED when
\* there is no record, OUTDATED when the record is DOWNLOADED and the
\* freshness probe reports that the remote content has changed.
getModuleStatus(entry, changed) ==
    IF entry.status = NoStatus THEN NOT_DOWNLOADED
    ELSE IF entry.status = DOWNLOADED /\ changed THEN OUTDATED
    ELSE entry.status

\* The promise of getModuleStatus: none asked for.
NoStatusPromise == [state |-> "none", changed |-> FALSE, value |-> NoStatus]

\* ----- CoreCourseModuleComponent -----
\* showStatus(status); canCheckUpdates is prefetchDelegate.canCheckUpdates()
showStatus(comp, status, canCheckUpdates) ==
    IF status = "" THEN comp
    ELSE [comp EXCEPT !.spinner = (status = DOWNLOADING),
                      !.showDownload = (status = NOT_DOWNLOADED),
                      !.showRefresh = (status = OUTDATED \/ (~canCheckUpdates /\ status = DOWNLOADED))]

\* The calls of handlerData.updateStatus after showStatus(status).
showStatusUpdates(comp, status) ==
    IF status # "" /\ comp.updateStatus THEN Append(updates, status) ELSE updates

\* set enabled(value): the downloadEnabled input; the first time download is
\* enabled the status of the module is asked for.
enabled(value) ==
    /\ component.phase # "destroyed"
    /\ LET first == component.showDownloadButton /\ value /\ ~component.statusCalculated
       IN /\ component' = [component EXCEPT !.downloadEnabled = value,
                                            !.statusCalculated = @ \/ first,
                                            !.spinner = @ \/ first]
          /\ IF first
             THEN \E changed \in BOOLEAN :
                     statusPromise' = [state |-> "pending", changed |-> changed, value |-> NoStatus]
             ELSE UNCHANGED statusPromise
    /\ UNCHANGED <<notified, updates>>
    /\ UNCHANGED <<prefetchVars, utilsVars, offlineVars>>

\* Mutation: the status computed is written to the store.
GetModuleStatusResolves_write(canCheckUpdates) ==
    /\ statusPromise.state = "pending"
    /\ LET status == getModuleStatus(packages[component.module], statusPromise.changed)
       IN /\ statusPromise' = [statusPromise EXCEPT !.state = "resolved", !.value = status]
          /\ component' = showStatus(component, status, canCheckUpdates)
          /\ updates' = showStatusUpdates(component, status)
          /\ packages' = [packages EXCEPT ![component.module] = storePackageStatus(@, status, Undefined)]
    /\ UNCHANGED <<online, downloadPromises, calls, notified>>
    /\ UNCHANGED <<utilsVars, offlineVars>>

\* getModuleStatus(...).then(this.showStatus.bind(this)): the status has been
\* computed and is shown.
GetModuleStatusResolves(canCheckUpdates) ==
    /\ statusPromise.state = "pending"
    /\ LET status == getModuleStatus(packages[component.module], statusPromise.changed)
       IN /\ statusPromise' = [statusPromise EXCEPT !.state = "resolved", !.value = status]
          /\ component' = showStatus(component, status, canCheckUpdates)
          /\ updates' = showStatusUpdates(component, status)
    /\ UNCHANGED notified
    /\ UNCHANGED <<prefetchVars, utilsVars, offlineVars>>

\* getModuleStatus rejected: no callback is registered for it.
GetModuleStatusRejects ==
    /\ statusPromise.state = "pending"
    /\ statusPromise' = [statusPromise EXCEPT !.state = "rejected"]
    /\ UNCHANGED <<component, notified, updates>>
    /\ UNCHANGED <<prefetchVars, utilsVars, offlineVars>>

\* ngOnInit(): the observer of PACKAGE_STATUS_CHANGED is registered.
ngOnInit ==
    /\ component.phase = "constructed"
    /\ component' = [component EXCEPT !.phase = "initialized",
                                      !.statusObserver = component.showDownloadButton]
    /\ UNCHANGED <<statusPromise, notified, updates>>
    /\ UNCHANGED <<prefetchVars, utilsVars, offlineVars>>

\* ngOnDestroy(): the observer is turned off.
ngOnDestroy ==
    /\ component.phase = "initialized"
    /\ component' = [component EXCEPT !.phase = "destroyed", !.statusObserver = FALSE]
    /\ UNCHANGED <<statusPromise, notified, updates>>
    /\ UNCHANGED <<prefetchVars, utilsVars, offlineVars>>

\* PACKAGE_STATUS_CHANGED is triggered with {componentId: id, status} for the
\* component of the prefetch handler: the callback of the observer runs.
PackageStatusChanged(id, status, canCheckUpdates) ==
    /\ Len(notified) < MaxEvents
    /\ IF id # component.module
       THEN UNCHANGED <<component, notified, updates>>
       ELSE /\ notified' = Append(notified, status)
            /\ IF ~component.statusObserver
               THEN UNCHANGED <<component, updates>>
               ELSE IF component.downloadEnabled
               THEN /\ component' = showStatus(component, status, canCheckUpdates)
                    /\ updates' = showStatusUpdates(component, status)
               ELSE /\ updates' = IF component.updateStatus THEN Append(updates, status) ELSE updates
                    /\ UNCHANGED component
    /\ UNCHANGED statusPromise
    /\ UNCHANGED <<prefetchVars, utilsVars, offlineVars>>

\* A component displayed for a module whose package is in any stored state.
InitStatus ==
    /\ online = TRUE
    /\ \E entry \in StoredEntries : packages = [m \in ModuleIds |-> entry]
    /\ NoPrefetch
    /\ NoOffline
    /\ \E id \in ModuleIds, button \in BOOLEAN, update \in BOOLEAN :
          component = [NewComponent(id) EXCEPT !.showDownloadButton = button,
                                               !.updateStatus = update]
    /\ statusPromise = NoStatusPromise
    /\ notified = << >>
    /\ updates = << >>
    /\ NoUtils

NextStatus ==
    \/ \E value \in BOOLEAN : enabled(value)
    \/ \E canCheckUpdates \in BOOLEAN : GetModuleStatusResolves(canCheckUpdates)
    \/ GetModuleStatusRejects
    \/ ngOnInit
    \/ ngOnDestroy
    \/ \E id \in ModuleIds, status \in Statuses, canCheckUpdates \in BOOLEAN :
          PackageStatusChanged(id, status, canCheckUpdates)

SpecStatus == InitStatus /\ [][NextStatus]_vars

\* ----- CoreUtilsProvider -----
\* How a promise settles: with a value, with an error, or with no reason at all.
Outcomes == {Resolved(Str("v2")), Rejected(Str("boom")), Rejected(Undefined)}

\* if (error): undefined and the empty string are falsy.
Truthy(v) == v.type # "undefined" /\ v # Str("")

\* allPromises(promises) has been called with a list of n pending promises:
\* an empty list resolves; otherwise catch() and finally() callbacks are
\* registered on every promise.
allPromises(n) ==
    /\ promises = [i \in 1..n |-> Pending]
    /\ handled = [i \in 1..n |-> "registered"]
    /\ count = 0
    /\ caught = Undefined
    /\ result = IF n = 0 THEN Resolved(Undefined) ELSE Pending

\* A promise of the list settles.
PromiseSettles(i, outcome) ==
    /\ promises[i] = Pending
    /\ promises' = [promises EXCEPT ![i] = outcome]
    /\ UNCHANGED <<handled, count, caught, result, entries, funcs, jobs, called>>
    /\ UNCHANGED <<prefetchVars, moduleVars, offlineVars>>

\* promise.catch((err) => { error = err; })
CatchCallback(i) ==
    /\ promises[i] # Pending
    /\ handled[i] = "registered"
    /\ handled' = [handled EXCEPT ![i] = "caught"]
    /\ caught' = IF promises[i].state = "rejected" THEN promises[i].value ELSE caught
    /\ UNCHANGED <<promises, count, result, entries, funcs, jobs, called>>
    /\ UNCHANGED <<prefetchVars, moduleVars, offlineVars>>

\* if (count === total) { if (error) { reject(error); } else { resolve(); } }
Settle(total, error) ==
    IF total < Len(promises) THEN Pending
    ELSE IF Truthy(error) THEN Rejected(error)
    ELSE Resolved(Undefined)

\* .finally(() => { count++; ... })
FinallyCallback(i) ==
    /\ handled[i] = "caught"
    /\ handled' = [handled EXCEPT ![i] = "finished"]
    /\ count' = count + 1
    /\ result' = Settle(count + 1, caught)
    /\ UNCHANGED <<promises, caught, entries, funcs, jobs, called>>
    /\ UNCHANGED <<prefetchVars, moduleVars, offlineVars>>

\* allPromises has been called with a list of up to MaxPromises promises.
InitAllPromises ==
    /\ online = TRUE
    /\ packages = [m \in ModuleIds |-> NoEntry]
    /\ NoPrefetch
    /\ NoModule
    /\ NoOffline
    /\ \E n \in 0..MaxPromises : allPromises(n)
    /\ entries = << >>
    /\ funcs = << >>
    /\ jobs = << >>
    /\ called = << >>

NextAllPromises ==
    \/ \E i \in 1..Len(promises), outcome \in Outcomes : PromiseSettles(i, outcome)
    \/ \E i \in 1..Len(promises) : CatchCallback(i)
    \/ \E i \in 1..Len(promises) : FinallyCallback(i)

SpecAllPromises == InitAllPromises /\ [][NextAllPromises]_vars

\* ----- executeOrderedPromises -----
\* How the promise a function returns settles.
FuncOutcomes == {Resolved(Str("v2")), Rejected(Str("boom"))}
NotCalled == [state |-> "none", value |-> Undefined]
Threw == [state |-> "threw", value |-> Undefined]

\* Mutation: a blocking entry is not made the dependency.
Dependency_initial(i) == 0
\* The dependency of entry i when the loop reaches it: the promise of the
\* last blocking entry before it, 0 for the initial Promise.resolve().
Dependency(i) ==
    LET blocking == {k \in 1..(i - 1) : entries[k].blocking}
    IN IF blocking = {} THEN 0 ELSE CHOOSE k \in blocking : \A m \in blocking : m <= k

\* The entries whose finally() callback is registered on the promise of k, in
\* the order of registration.
Dependents(k) ==
    SelectSeq([j \in 1..Len(entries) |-> j], LAMBDA j : Dependency(j) = k)

\* The promise dependency.finally(callback) of entry i once data.func has
\* finished as fn: rejected as the promise the callback returned, otherwise
\* settled as the dependency.
FinallyPromise(i, fn) ==
    IF fn.state = "rejected" THEN fn
    ELSE IF Dependency(i) = 0 THEN Resolved(Undefined)
    ELSE promises[Dependency(i)]

\* The callbacks queued when the promise of entry i settles.
Queued(i) == IF entries[i].blocking THEN Dependents(i) ELSE << >>

\* The finally() callback at the head of the queue runs: data.func is called
\* and returns a promise, or throws, which is logged and ignored.
RunFinallyCallback(throws) ==
    /\ jobs # << >>
    /\ LET i == Head(jobs)
       IN /\ called' = Append(called, i)
          /\ IF throws
             THEN /\ funcs' = [funcs EXCEPT ![i] = Threw]
                  /\ promises' = [promises EXCEPT ![i] = FinallyPromise(i, Threw)]
                  /\ jobs' = Tail(jobs) \o Queued(i)
             ELSE /\ funcs' = [funcs EXCEPT ![i] = Pending]
                  /\ jobs' = Tail(jobs)
                  /\ UNCHANGED promises
    /\ UNCHANGED <<handled, count, caught, result, entries>>
    /\ UNCHANGED <<prefetchVars, moduleVars, offlineVars>>

\* The promise data.func returned settles, and with it the promise of the entry.
FuncSettles(i, outcome) ==
    /\ funcs[i] = Pending
    /\ funcs' = [funcs EXCEPT ![i] = outcome]
    /\ promises' = [promises EXCEPT ![i] = FinallyPromise(i, outcome)]
    /\ jobs' = jobs \o Queued(i)
    /\ UNCHANGED <<handled, count, caught, result, entries, called>>
    /\ UNCHANGED <<prefetchVars, moduleVars, offlineVars>>

\* executeOrderedPromises has been called with a list of up to MaxEntries
\* entries: the loop has registered the callbacks and allPromises(promises)
\* has been called.
InitOrdered ==
    /\ online = TRUE
    /\ packages = [m \in ModuleIds |-> NoEntry]
    /\ NoPrefetch
    /\ NoModule
    /\ NoOffline
    /\ \E n \in 0..MaxEntries :
          /\ entries \in [1..n -> [blocking : BOOLEAN]]
          /\ allPromises(n)
          /\ funcs = [i \in 1..n |-> NotCalled]
    /\ jobs = Dependents(0)
    /\ called = << >>

NextOrdered ==
    \/ \E throws \in BOOLEAN : RunFinallyCallback(throws)
    \/ \E i \in 1..Len(entries), outcome \in FuncOutcomes : FuncSettles(i, outcome)
    \/ \E i \in 1..Len(promises) : CatchCallback(i)
    \/ \E i \in 1..Len(promises) : FinallyCallback(i)

\* The event loop runs the callbacks that are queued, and the promises the
\* functions return are assumed to settle.
SpecOrdered ==
    /\ InitOrdered /\ [][NextOrdered]_vars
    /\ WF_vars(\E throws \in BOOLEAN : RunFinallyCallback(throws))
    /\ \A i \in 1..MaxEntries :
          /\ WF_vars(i <= Len(entries) /\ \E outcome \in FuncOutcomes : FuncSettles(i, outcome))
          /\ WF_vars(i <= Len(promises) /\ CatchCallback(i))
          /\ WF_vars(i <= Len(promises) /\ FinallyCallback(i))

\* ----- fairness -----
\* One chain of callbacks: on the single-threaded event loop a callback whose
\* promise has settled is run, and the store completes the writes it is
\* asked for; the work function is assumed to settle.
ChainProgress(c) ==
    /\ WF_vars(SetDownloadingDone(c))
    /\ WF_vars(\/ \E extra \in Results : DownloadFnResolves(c, extra)
               \/ \E error \in Errors : DownloadFnRejects(c, error))
    /\ WF_vars(SetDownloadedDone(c))
    /\ WF_vars(setPreviousStatusAndReject(c))
    /\ WF_vars(OngoingDownloadFinally(c))

\* The activity handler alone, online: calls of prefetchPackage and their callbacks.
FairNext ==
    \/ \E c \in CallIds, id \in Activities : prefetchPackage(c, id)
    \/ \E c \in CallIds : SetDownloadingDone(c)
    \/ \E c \in CallIds, extra \in Results : DownloadFnResolves(c, extra)
    \/ \E c \in CallIds, error \in Errors : DownloadFnRejects(c, error)
    \/ \E c \in CallIds : SetDownloadedDone(c)
    \/ \E c \in CallIds : setPreviousStatusAndReject(c)
    \/ \E c \in CallIds : OngoingDownloadFinally(c)

\* The device stays online.
InitOnline == Init /\ online = TRUE

FairSpec == InitOnline /\ [][FairNext]_vars /\ \A c \in CallIds : ChainProgress(c)

\* ----- one process lifetime -----
\* Only the handler has written the status of a key: no record is DOWNLOADING
\* when the process starts.
InitLifetime ==
    /\ online \in BOOLEAN
    /\ \E entry \in {NoEntry, OutdatedEntry, DownloadedEntry} :
          packages = [m \in ModuleIds |-> entry]
    /\ NoPrefetch
    /\ NoModule
    /\ NoOffline
    /\ NoUtils

NextLifetime ==
    \/ \E c \in CallIds, id \in Activities : prefetchPackage(c, id)
    \/ \E c \in CallIds : SetDownloadingDone(c)
    \/ \E c \in CallIds, extra \in Results : DownloadFnResolves(c, extra)
    \/ \E c \in CallIds, error \in Errors : DownloadFnRejects(c, error)
    \/ \E c \in CallIds : SetDownloadedDone(c)
    \/ \E c \in CallIds : setPreviousStatusAndReject(c)
    \/ \E c \in CallIds : OngoingDownloadFinally(c)
    \/ NetworkChange

SpecLifetime == InitLifetime /\ [][NextLifetime]_vars

\* ----- a store whose writes can fail -----
\* The errors of a failed status write and of a failed restore.
WriteError == Str("writefailed")
RestoreError == Str("restorefailed")

\* setDownloading rejected: the then() callbacks are skipped and the catch()
\* callback starts setPreviousStatusAndReject with the write's error.
SetDownloadingFails(c) ==
    /\ calls[c].pc = "setDownloading"
    /\ calls' = [calls EXCEPT ![c].pc = "setPreviousStatusAndReject",
                              ![c].held = WriteError, ![c].failed = "setDownloading"]
    /\ UNCHANGED <<online, packages, downloadPromises>>
    /\ UNCHANGED <<moduleVars, utilsVars, offlineVars>>

\* Mutation: the failure of the DOWNLOADED write is not caught.
SetDownloadedFails_uncaught(c) ==
    /\ calls[c].pc = "setDownloaded"
    /\ calls' = [calls EXCEPT ![c].pc = "settled", ![c].chain = Rejected(WriteError),
                              ![c].failed = "setDownloaded"]
    /\ UNCHANGED <<online, packages, downloadPromises>>
    /\ UNCHANGED <<moduleVars, utilsVars, offlineVars>>

\* setDownloaded rejected: the promise of the second then() rejects and the
\* catch() callback after it starts setPreviousStatusAndReject with the
\* write's error.
SetDownloadedFails(c) ==
    /\ calls[c].pc = "setDownloaded"
    /\ calls' = [calls EXCEPT ![c].pc = "setPreviousStatusAndReject",
                              ![c].held = WriteError, ![c].failed = "setDownloaded"]
    /\ UNCHANGED <<online, packages, downloadPromises>>
    /\ UNCHANGED <<moduleVars, utilsVars, offlineVars>>

\* setPackagePreviousStatus rejected: its then() callback is skipped and
\* prefetchPromise rejects with the error of the restore.
RestoreFails(c) ==
    /\ calls[c].pc = "setPreviousStatusAndReject"
    /\ calls[c].op = "prefetchPackage"
    /\ calls' = [calls EXCEPT ![c].pc = "settled", ![c].chain = Rejected(RestoreError)]
    /\ UNCHANGED <<online, packages, downloadPromises>>
    /\ UNCHANGED <<moduleVars, utilsVars, offlineVars>>

\* The activity handler, online, over a store whose writes can fail.
NextStoreFails ==
    \/ \E c \in CallIds, id \in Activities : prefetchPackage(c, id)
    \/ \E c \in CallIds : SetDownloadingDone(c)
    \/ \E c \in CallIds : SetDownloadingFails(c)
    \/ \E c \in CallIds, extra \in Results : DownloadFnResolves(c, extra)
    \/ \E c \in CallIds, error \in Errors : DownloadFnRejects(c, error)
    \/ \E c \in CallIds : SetDownloadedDone(c)
    \/ \E c \in CallIds : SetDownloadedFails(c)
    \/ \E c \in CallIds : setPreviousStatusAndReject(c)
    \/ \E c \in CallIds : RestoreFails(c)
    \/ \E c \in CallIds : OngoingDownloadFinally(c)

SpecStoreFails == InitOnline /\ [][NextStoreFails]_vars

\* The chain of attempt c has just settled and the key has left DOWNLOADING:
\* it is DOWNLOADED with the extra of this attempt, or it is at the status a
\* rollback restores.
LeftDownloading(c) ==
    /\ calls[c].pc = "settled"
    /\ packages[calls[c].id].status # DOWNLOADING
    /\ IF calls[c].fnResult.state = "resolved"
       THEN /\ packages[calls[c].id].status = DOWNLOADED
            /\ packages[calls[c].id].extra =
                  (IF calls[c].fnResult.value.type = "string"
                   THEN calls[c].fnResult.value ELSE Str(""))
       ELSE packages[calls[c].id].status = RolledBackStatus(calls[c].startEntry)

\* C12 as stated: when the chain of an attempt has settled the key is
\* DOWNLOADED with the latest extra or back at its pre-attempt status.
C12_Original ==
    \A c \in CallIds : (Attempt(c) /\ calls[c].pc = "settled") =>
        \/ /\ packages[calls[c].id].status = DOWNLOADED
           /\ calls[c].fnResult.state = "resolved"
        \/ /\ packages[calls[c].id].status = StatusOf(calls[c].startEntry)
           /\ packages[calls[c].id].status # DOWNLOADING

\* C12 as amended: every attempt that marks a key DOWNLOADING eventually
\* leaves DOWNLOADING, provided the work function settles and the store
\* completes its writes; the key then is DOWNLOADED with the extra of the
\* attempt, or back at its pre-attempt status, or, when the attempt started
\* from a stale DOWNLOADING record, at that record's previousStatus.
C12_NoStuckDownload ==
    /\ \A c \in CallIds : (Attempt(c) /\ calls[c].pc = "downloadFn") ~> LeftDownloading(c)
    /\ [](\A c \in CallIds : (Attempt(c) /\ calls[c].pc = "settled") => LeftDownloading(c))

\* A failed attempt has just settled and the key is back at OUTDATED.
C12_Witness ==
    \E c \in CallIds :
        /\ Attempt(c) /\ LeftDownloading(c)
        /\ calls[c].fnResult.state = "rejected"
        /\ calls[c].startEntry.status = OUTDATED
        /\ packages[calls[c].id].status = OUTDATED

\* prefetchPackage call c was made online for a key whose stored status was
\* DOWNLOADING while the OngoingDownload map had no entry for it.
StaleStart(c) ==
    /\ calls[c].op = "prefetchPackage" /\ calls[c].wasOnline
    /\ calls[c].sawOngoing = 0 /\ calls[c].startEntry.status = DOWNLOADING

\* C13: a stored DOWNLOADING record with no OngoingDownload entry is not a
\* lock: a prefetchPackage call made online for that key starts an attempt,
\* which invokes the work function once the DOWNLOADING write completes; an
\* online call starts an attempt exactly when the map has no entry for the
\* key, whatever the stored status.
C13_StaleDownloadingIsNotALock ==
    \A c \in CallIds :
        /\ StaleStart(c)
              => /\ Started(c)
                 /\ calls[c].pc # "none"
                 /\ calls[c].pc # "setDownloading" => calls[c].invoked = 1
        /\ (calls[c].op = "prefetchPackage" /\ calls[c].wasOnline)
              => (Started(c) <=> calls[c].sawOngoing = 0)

\* The work function of an attempt on a stale DOWNLOADING record is running.
C13_Witness ==
    \E c \in CallIds : StaleStart(c) /\ calls[c].pc = "downloadFn" /\ calls[c].invoked = 1

\* C14 as stated: every failure transition out of DOWNLOADING restores the key
\* to its previousStatus, and that status is NOT_DOWNLOADED or OUTDATED.
C14_Original ==
    \A c \in CallIds : FailedAttempt(c) =>
        StatusOf(packages[calls[c].id]) \in {NOT_DOWNLOADED, OUTDATED}

\* The rollback of call c is being completed in this step.
RollsBack(c) ==
    /\ calls[c].op = "prefetchPackage"
    /\ calls[c].pc = "setPreviousStatusAndReject" /\ calls'[c].pc = "settled"

\* C14 as amended: every failure transition out of DOWNLOADING restores the key
\* to its previousStatus (NOT_DOWNLOADED if none was captured), and that
\* status is NOT_DOWNLOADED, OUTDATED or DOWNLOADED.
C14_FailureRestoresPrevious ==
    [][\A c \in CallIds : RollsBack(c) =>
            /\ packages[calls[c].id].status = DOWNLOADING
            /\ packages'[calls[c].id].status =
                  (IF packages[calls[c].id].previous = NoStatus THEN NOT_DOWNLOADED
                   ELSE packages[calls[c].id].previous)
            /\ packages'[calls[c].id].status \in {NOT_DOWNLOADED, OUTDATED, DOWNLOADED}]_vars

\* A failed download of a key that had been DOWNLOADED by an earlier call has
\* been rolled back to DOWNLOADED.
C14_Witness ==
    \E c, d \in CallIds :
        /\ c < d /\ calls[c].id = calls[d].id
        /\ SucceededAttempt(d) = FALSE /\ FailedAttempt(d)
        /\ calls[c].fnResult.state = "resolved"
        /\ calls[d].startEntry.status = DOWNLOADED
        /\ packages[calls[d].id].status = DOWNLOADED

\* C16: operations on different keys are independent: a prefetchPackage call
\* made online for a key with no download in flight starts an attempt whatever
\* is in flight for other keys, and a step changes the stored record and the
\* OngoingDownload entry only of the key of the call that takes the step.
C16_KeysIndependent ==
    /\ [](\A c \in CallIds :
            (calls[c].op = "prefetchPackage" /\ calls[c].wasOnline /\ calls[c].sawOngoing = 0)
                => (Started(c) /\ calls[c].pc # "none"))
    /\ [][\A id \in ModuleIds :
            (packages'[id] # packages[id] \/ downloadPromises'[id] # downloadPromises[id])
                => \E c \in CallIds : calls'[c] # calls[c] /\ calls'[c].id = id]_vars

\* The work functions of two activities run at the same time.
C16_Witness ==
    \E c, d \in CallIds :
        /\ calls[c].op = "prefetchPackage" /\ calls[d].op = "prefetchPackage"
        /\ calls[c].id # calls[d].id
        /\ calls[c].pc = "downloadFn" /\ calls[d].pc = "downloadFn"
        /\ downloadPromises[calls[c].id] = c /\ downloadPromises[calls[d].id] = d

\* downloadOrPrefetch call c started a download run of which a part is still
\* running: the loading of the contents, the download of the intro files or
\* the download of the package.
RunInFlight(c) ==
    /\ calls[c].op = "downloadOrPrefetch" /\ Started(c)
    /\ \/ calls[c].pc \in {"loadContents", "all", "downloadPackage", "downloadFiles"}
       \/ calls[c].intro = "pending"
       \/ calls[c].pkg \in {"downloadPackage", "downloadFiles"}

\* C15: downloadOrPrefetch coordinates as prefetchPackage does: offline it
\* rejects and changes nothing; while a download of the module is ongoing it
\* returns that download's promise; otherwise it starts one download run,
\* registered as the module's OngoingDownload while it runs, so that at most
\* one download run per module is in flight at any time.
C15_OneRunPerModule ==
    /\ \A c \in CallIds : (calls[c].op = "downloadOrPrefetch" /\ ~calls[c].wasOnline)
            => (calls[c].invoked = 0 /\ Outcome(c) = Rejected(NetworkError))
    /\ \A c \in CallIds : (calls[c].op = "downloadOrPrefetch" /\ calls[c].wasOnline
                            /\ calls[c].sawOngoing # 0)
            => (calls[c].promise = calls[c].sawOngoing /\ calls[c].invoked = 0)
    /\ \A id \in Resources :
          /\ Cardinality({c \in CallIds : calls[c].id = id /\ RunInFlight(c)}) <= 1
          /\ \A c \in CallIds : (calls[c].id = id /\ RunInFlight(c)) => downloadPromises[id] = c

C18_NoRetrigger ==
    [][(/\ Len(notified) > 0
        /\ Len(notified') = Len(notified) + 1
        /\ notified'[Len(notified')] = notified[Len(notified)])
            => updates' = updates]_vars

\* C19: the promise allPromises returns does not settle until every promise
\* of the list has settled; it then rejects if at least one promise was
\* rejected, whatever the reason, and resolves otherwise; an empty list
\* resolves at once.
C19_RejectsIfAnyRejected ==
    result # Pending =>
        /\ \A i \in 1..Len(promises) : promises[i] # Pending
        /\ result.state = "rejected" <=> \E i \in 1..Len(promises) : promises[i].state = "rejected"

\* entries 1..n: the functions invoked so far are a prefix of the list.
InListOrder == \A k \in 1..Len(called) : called[k] = k

\* The function of entry i has finished: it threw or its promise has settled.
Finished(i) == funcs[i] # NotCalled /\ funcs[i] # Pending

\* C20: executeOrderedPromises invokes every entry's function exactly once, in
\* list order, whatever failed before; a function listed after a blocking
\* entry is not invoked until the promise of that entry has settled; an
\* entry that has not been invoked waits only for a blocking entry, never for
\* a non-blocking one; the promise returned settles only after all entries
\* have finished.
C20_OrderedExecution ==
    /\ [](InListOrder /\ Len(called) <= Len(entries))
    /\ [](\A i \in 1..Len(called), k \in 1..Len(entries) :
            (k < i /\ entries[k].blocking) => (Finished(k) /\ promises[k] # Pending))
    /\ [](\A j \in (Len(called) + 1)..Len(entries) :
            \/ \E q \in 1..Len(jobs) : jobs[q] = j
            \/ \E k \in 1..(j - 1) : entries[k].blocking /\ promises[k] = Pending)
    /\ [](result # Pending =>
            (Len(called) = Len(entries) /\ \A i \in 1..Len(entries) : Finished(i)))
    /\ <>[](Len(called) = Len(entries) /\ result # Pending)

\* A blocking entry has failed, a non-blocking entry after it is still
\* running, and the function of the entry after that has been invoked.
C20_Witness ==
    \E i \in 1..Len(entries) :
        /\ i + 2 <= Len(called)
        /\ entries[i].blocking /\ funcs[i].state = "rejected"
        /\ ~entries[i + 1].blocking /\ funcs[i + 1] = Pending

\* Call c was made offline while a download of its key was in flight.
OfflineWhileInFlight(c) ==
    calls[c].op # "none" /\ ~calls[c].wasOnline /\ calls[c].sawOngoing # 0

\* C21: the connectivity check precedes de-duplication and is made once per
\* call: a call made offline while a download of the key is in flight rejects
\* at once with the network error instead of attaching to the download, and
\* changes neither the download in flight, nor its OngoingDownload entry, nor
\* the store.
C21_OfflineBeforeDedup ==
    /\ [](\A c \in CallIds : OfflineWhileInFlight(c) =>
            /\ calls[c].promise = c /\ calls[c].kind = "rejected"
            /\ calls[c].invoked = 0
            /\ Outcome(c) = Rejected(NetworkError))
    /\ [][\A c \in CallIds :
            (IsCalled(c) /\ ~online /\ downloadPromises[calls'[c].id] # 0)
                => /\ OfflineWhileInFlight(c)'
                   /\ \A d \in CallIds \ {c} : calls'[d] = calls[d]
                   /\ UNCHANGED <<packages, downloadPromises>>]_vars

\* A prefetchPackage call was rejected offline while a download of its key was
\* in flight, and that download, started online, has since succeeded.
C21_Witness ==
    \E c, d \in CallIds :
        /\ calls[d].op = "prefetchPackage" /\ OfflineWhileInFlight(d)
        /\ calls[d].sawOngoing = c
        /\ calls[c].fnResult.state = "resolved" /\ calls[c].pc = "done"
        /\ packages[calls[c].id].status = DOWNLOADED

\* C22: previousStatus is never DOWNLOADING: capturing it is idempotent when
\* the stored status is already DOWNLOADING, so every rollback, after any
\* sequence of failed attempts and also from a stale DOWNLOADING record,
\* restores the last status that was not DOWNLOADING (NOT_DOWNLOADED if none
\* was captured) and never leaves DOWNLOADING in place.
C22_PreviousNeverDownloading ==
    /\ [](\A id \in ModuleIds : packages[id].previous # DOWNLOADING)
    /\ [][\A c \in CallIds : RollsBack(c) =>
            /\ packages'[calls[c].id].status # DOWNLOADING
            /\ packages'[calls[c].id].status = RolledBackStatus(calls[c].startEntry)
            /\ packages'[calls[c].id].previous = packages[calls[c].id].previous]_vars

\* Two attempts on a key whose record was a stale DOWNLOADING have failed one
\* after the other and the key is back at the record's previousStatus.
C22_Witness ==
    \E c, d \in CallIds :
        /\ c < d /\ calls[c].id = calls[d].id
        /\ calls[c].op = "prefetchPackage" /\ Started(c) /\ calls[c].fnResult.state = "rejected"
        /\ calls[c].startEntry = StaleEntry
        /\ FailedAttempt(d)
        /\ packages[calls[d].id].status = DOWNLOADED
        /\ packages[calls[d].id].previous = DOWNLOADED

DownloadedWriteFailed(c) ==
    /\ Attempt(c) /\ calls[c].failed = "setDownloaded"
    /\ calls[c].pc \in {"settled", "done"}
    /\ ~LaterAttempt(c)

\* C29 as stated: if the DOWNLOADED write fails after the work function has
\* succeeded, the previous status is restored and the call rejects with the
\* write's error, so the key does not stay DOWNLOADING.
C29_Original ==
    \A c \in CallIds : DownloadedWriteFailed(c) =>
        /\ calls[c].chain = Rejected(WriteError)
        /\ packages[calls[c].id].status # DOWNLOADING

\* C29 as amended: if the DOWNLOADED write fails after the work function has
\* succeeded, prefetchPackage takes the failure path of a work-function
\* failure and never resolves; provided the restore itself succeeds, the key
\* is back at the status a rollback restores and the call rejects with the
\* write's error; if the restore fails too, the call rejects with the
\* restore's error and the key stays DOWNLOADING.
C29_WriteFailureRollsBack ==
    /\ [](\A c \in CallIds : DownloadedWriteFailed(c) =>
            /\ calls[c].fnResult.state = "resolved"
            /\ \/ /\ calls[c].chain = Rejected(WriteError)
                  /\ packages[calls[c].id].status = RolledBackStatus(calls[c].startEntry)
                  /\ packages[calls[c].id].status # DOWNLOADING
               \/ /\ calls[c].chain = Rejected(RestoreError)
                  /\ packages[calls[c].id].status = DOWNLOADING)
    /\ [][\A c \in CallIds :
            (calls[c].pc = "setDownloaded" /\ calls'[c].failed = "setDownloaded")
                => /\ calls'[c].pc = "setPreviousStatusAndReject"
                   /\ calls'[c].held = WriteError
                   /\ calls'[c].chain = Pending]_vars

\* The work function resolved, the DOWNLOADED write failed, the key is back at
\* OUTDATED and the call has rejected with the write's error.
C29_Witness ==
    \E c \in CallIds :
        /\ DownloadedWriteFailed(c)
        /\ calls[c].fnResult = Resolved(Str("v2"))
        /\ calls[c].chain = Rejected(WriteError)
        /\ calls[c].startEntry.status = OUTDATED
        /\ packages[calls[c].id].status = OUTDATED
        /\ packages[calls[c].id].extra = Str("v1")

\* ----- CoreUtilsProvider.isWebServiceError -----
\* message.indexOf('Invalid token - token expired') == -1: the messages of the
\* model either are that text or do not contain it.
isWebServiceError(error) ==
    \/ Property(error, "warningcode") # "undefined"
    \/ /\ Property(error, "errorcode") # "undefined"
       /\ Property(error, "errorcode") \notin SiteErrorCodes
       /\ \/ Property(error, "errorcode") # "accessexception"
          \/ Property(error, "message") # TokenExpired

\* Errors a call of the WebService may be rejected with: no connection, errors
\* of the WebService and errors of the site.
SendErrors == {NetworkError,
               ErrorObject("nopermissions", "undefined", "denied"),
               ErrorObject("undefined", "warning", "denied"),
               ErrorObject("accessexception", "undefined", "denied"),
               ErrorObject("accessexception", "undefined", TokenExpired),
               ErrorObject("invalidtoken", "undefined", "denied")}

\* ----- CoreSyncBaseProvider: ongoing syncs (one site, the id of a sync is the course id) -----
isSyncing(course) == syncPromises[course] # 0
getOngoingSync(course) == syncPromises[course]
\* addOngoingSync(course, promise, siteId): registers promise.finally(delete entry)
\* and returns it.
addOngoingSync(course, s) == [syncPromises EXCEPT ![course] = s]

\* ----- AddonNotesSyncProvider.syncNotes -----
NextSync(s) == syncs[s].op = "none" /\ \A d \in 1..(s - 1) : syncs[d].op # "none"

\* entry.errormessage of a response entry whose noteid is -1.
EntryError == Str("errormessage")

\* translate.instant('addon.notes.warningnotenotsent', {course, error}).
\* The course name it shows (course.fullname, else the course id) is left out.
Warning(error) == [type |-> "string", v |-> "addon.notes.warningnotenotsent", error |-> error]

\* syncPromise settles; the callbacks registered on it run in later turns.
SyncSettles(s, state, warnings, error, left) ==
    [syncs[s] EXCEPT !.pc = "settled", !.state = state, !.warnings = warnings,
                     !.error = error, !.left = left]

\* syncNotes(courseId, siteId) is called.
syncNotes_nocheck(s, course) ==
    /\ NextSync(s)
    /\ syncs' = [syncs EXCEPT ![s] = [NoSync EXCEPT !.op = "syncNotes", !.course = course,
                                                    !.promise = s,
                                                    !.pc = "getNotesForCourse"]]
    /\ syncPromises' = addOngoingSync(course, s)
    /\ UNCHANGED <<offlineNotes, noteCount, forumVars>>
    /\ UNCHANGED <<prefetchVars, moduleVars, utilsVars>>

syncNotes(s, course) ==
    /\ NextSync(s)
    /\ IF isSyncing(course)
       THEN /\ syncs' = [syncs EXCEPT ![s] = [NoSync EXCEPT !.op = "syncNotes",
                                                            !.course = course,
                                                            !.promise = getOngoingSync(course)]]
            /\ UNCHANGED syncPromises
       ELSE /\ syncs' = [syncs EXCEPT ![s] = [NoSync EXCEPT !.op = "syncNotes",
                                                            !.course = course,
                                                            !.promise = s,
                                                            !.pc = "getNotesForCourse"]]
            /\ syncPromises' = addOngoingSync(course, s)
    /\ UNCHANGED <<offlineNotes, noteCount, forumVars>>
    /\ UNCHANGED <<prefetchVars, moduleVars, utilsVars>>

\* notesOffline.getNotesForCourse resolves with the notes stored for the course.
GetNotesForCourseResolves(s) ==
    /\ syncs[s].pc = "getNotesForCourse"
    /\ LET notes == offlineNotes[syncs[s].course]
       IN  syncs' = [syncs EXCEPT ![s] =
               IF notes = {} THEN SyncSettles(s, "resolved", << >>, Undefined, notes)
               ELSE IF ~online
                    THEN [SyncSettles(s, "rejected", << >>, NetworkError, notes)
                             EXCEPT !.notes = notes]
               ELSE [@ EXCEPT !.pc = "addNotesOnline", !.notes = notes]]
    /\ UNCHANGED <<offlineNotes, noteCount, syncPromises, forumVars>>
    /\ UNCHANGED <<prefetchVars, moduleVars, utilsVars>>

\* notesProvider.addNotesOnline resolves: the server received the notes; an
\* entry of the response with noteid -1 adds its message to errors.  The
\* refresh of the notes that follows changes nothing here and its errors are
\* ignored.
AddNotesOnlineResolves(s, failed) ==
    /\ syncs[s].pc = "addNotesOnline"
    /\ online
    /\ syncs' = [syncs EXCEPT ![s].pc = "deleteNote",
                              ![s].sent = syncs[s].notes,
                              ![s].errors = IF failed THEN <<EntryError>> ELSE << >>]
    /\ UNCHANGED <<offlineNotes, noteCount, syncPromises, forumVars>>
    /\ UNCHANGED <<prefetchVars, moduleVars, utilsVars>>

\* notesProvider.addNotesOnline rejects.
AddNotesOnlineRejects_deletes(s, error) ==
    /\ syncs[s].pc = "addNotesOnline"
    /\ offlineNotes' = [offlineNotes EXCEPT ![syncs[s].course] = @ \ syncs[s].notes]
    /\ syncs' = [syncs EXCEPT ![s] =
           IF isWebServiceError(error)
           THEN [@ EXCEPT !.pc = "deleteNote", !.errors = <<error>>, !.sendError = error]
           ELSE [SyncSettles(s, "rejected", << >>, error, offlineNotes'[syncs[s].course])
                    EXCEPT !.sendError = error, !.deleted = syncs[s].notes]]
    /\ UNCHANGED <<noteCount, syncPromises, forumVars>>
    /\ UNCHANGED <<prefetchVars, moduleVars, utilsVars>>

AddNotesOnlineRejects_rejects(s, error) ==
    /\ syncs[s].pc = "addNotesOnline"
    /\ syncs' = [syncs EXCEPT ![s] =
           [SyncSettles(s, "rejected", << >>, error, offlineNotes[syncs[s].course])
               EXCEPT !.sendError = error]]
    /\ UNCHANGED <<offlineNotes, noteCount, syncPromises, forumVars>>
    /\ UNCHANGED <<prefetchVars, moduleVars, utilsVars>>

AddNotesOnlineRejects(s, error) ==
    /\ syncs[s].pc = "addNotesOnline"
    /\ syncs' = [syncs EXCEPT ![s] =
           IF isWebServiceError(error)
           THEN [@ EXCEPT !.pc = "deleteNote", !.errors = <<error>>, !.sendError = error]
           ELSE [SyncSettles(s, "rejected", << >>, error, offlineNotes[syncs[s].course])
                    EXCEPT !.sendError = error]]
    /\ UNCHANGED <<offlineNotes, noteCount, syncPromises, forumVars>>
    /\ UNCHANGED <<prefetchVars, moduleVars, utilsVars>>

\* Promise.all of notesOffline.deleteNote(userid, content, created) of every
\* note read resolves.
DeleteNotesResolve_all(s) ==
    /\ syncs[s].pc = "deleteNote"
    /\ offlineNotes' = [offlineNotes EXCEPT ![syncs[s].course] = {}]
    /\ syncs' = [syncs EXCEPT ![s] =
           IF syncs[s].errors = << >>
           THEN [SyncSettles(s, "resolved", << >>, Undefined, offlineNotes'[syncs[s].course])
                    EXCEPT !.deleted = offlineNotes[syncs[s].course]]
           ELSE [@ EXCEPT !.pc = "getUserCourse", !.deleted = offlineNotes[syncs[s].course]]]
    /\ UNCHANGED <<noteCount, syncPromises, forumVars>>
    /\ UNCHANGED <<prefetchVars, moduleVars, utilsVars>>

DeleteNotesResolve(s) ==
    /\ syncs[s].pc = "deleteNote"
    /\ offlineNotes' = [offlineNotes EXCEPT ![syncs[s].course] = @ \ syncs[s].notes]
    /\ syncs' = [syncs EXCEPT ![s] =
           IF syncs[s].errors = << >>
           THEN [SyncSettles(s, "resolved", << >>, Undefined, offlineNotes'[syncs[s].course])
                    EXCEPT !.deleted = syncs[s].notes]
           ELSE [@ EXCEPT !.pc = "getUserCourse", !.deleted = syncs[s].notes]]
    /\ UNCHANGED <<noteCount, syncPromises, forumVars>>
    /\ UNCHANGED <<prefetchVars, moduleVars, utilsVars>>

\* coursesProvider.getUserCourse settles: its error is replaced by an empty
\* course, and every error becomes a warning.
GetUserCourseSettles(s, found) ==
    /\ syncs[s].pc = "getUserCourse"
    /\ LET warnings == [i \in 1..Len(syncs[s].errors) |-> Warning(syncs[s].errors[i])]
       IN  syncs' = [syncs EXCEPT ![s] =
               SyncSettles(s, "resolved", warnings, Undefined, offlineNotes[syncs[s].course])]
    /\ UNCHANGED <<offlineNotes, noteCount, syncPromises, forumVars>>
    /\ UNCHANGED <<prefetchVars, moduleVars, utilsVars>>

\* The finally() callback addOngoingSync registered removes the entry.
OngoingSyncFinally(s) ==
    /\ syncs[s].pc = "settled"
    /\ syncs' = [syncs EXCEPT ![s].pc = "done"]
    /\ syncPromises' = [syncPromises EXCEPT ![syncs[s].course] = IF @ = s THEN 0 ELSE @]
    /\ UNCHANGED <<offlineNotes, noteCount, forumVars>>
    /\ UNCHANGED <<prefetchVars, moduleVars, utilsVars>>

\* The user writes a note for a course and it is stored offline.
QueueNote(course) ==
    /\ noteCount < MaxNotes
    /\ noteCount' = noteCount + 1
    /\ offlineNotes' = [offlineNotes EXCEPT ![course] = @ \cup {noteCount + 1}]
    /\ UNCHANGED <<syncPromises, syncs, forumVars>>
    /\ UNCHANGED <<prefetchVars, moduleVars, utilsVars>>

InitOffline ==
    /\ online \in BOOLEAN
    /\ packages = [m \in ModuleIds |-> NoEntry]
    /\ NoPrefetch
    /\ NoModule
    /\ NoUtils
    /\ NoOffline

NextNotes ==
    \/ \E s \in SyncIds, course \in Courses : syncNotes(s, course)
    \/ \E s \in SyncIds : GetNotesForCourseResolves(s)
    \/ \E s \in SyncIds, failed \in BOOLEAN : AddNotesOnlineResolves(s, failed)
    \/ \E s \in SyncIds, error \in SendErrors : AddNotesOnlineRejects(s, error)
    \/ \E s \in SyncIds : DeleteNotesResolve(s)
    \/ \E s \in SyncIds, found \in BOOLEAN : GetUserCourseSettles(s, found)
    \/ \E s \in SyncIds : OngoingSyncFinally(s)
    \/ \E course \in Courses : QueueNote(course)
    \/ NetworkChange

SpecNotes == InitOffline /\ [][NextNotes]_vars


\* ----- notes sync: what is observed -----
\* Positions of a chain whose ongoing sync is registered.
SyncInFlight == {"getNotesForCourse", "addNotesOnline", "deleteNote", "getUserCourse", "settled"}

\* Call s started a run of its own.
RunsSync(s) == syncs[s].op # "none" /\ syncs[s].promise = s

\* Call s of syncNotes is being made in this step.
IsSyncCalled(s) == syncs[s].op = "none" /\ syncs'[s].op # "none"

\* The promise returned to the caller of s has settled.
SyncSettled(s) == syncs[s].promise # 0 /\ syncs[syncs[s].promise].pc \in {"settled", "done"}

\* C23: a call of syncNotes made while a sync of the course is in flight
\* returns the promise of that sync and starts no chain of its own; at any
\* time at most one run per course is in flight, and the server receives
\* notes from a run only while no other run of the course is in flight.
C23_OneSyncPerCourse ==
    /\ [](\A s, d \in SyncIds :
            (/\ RunsSync(s) /\ RunsSync(d)
             /\ syncs[s].course = syncs[d].course
             /\ syncs[s].pc \in SyncInFlight /\ syncs[d].pc \in SyncInFlight) => s = d)
    /\ [][\A s \in SyncIds :
            /\ (IsSyncCalled(s) /\ isSyncing(syncs'[s].course)) =>
                  /\ syncs'[s].promise = getOngoingSync(syncs'[s].course)
                  /\ syncs'[s].pc = "none"
                  /\ syncs[syncs'[s].promise].pc \in SyncInFlight
            /\ syncs'[s].sent # syncs[s].sent =>
                  \A d \in SyncIds \ {s} :
                      syncs[d].course = syncs[s].course => syncs[d].pc \notin SyncInFlight]_vars

\* A second call was made while the first had the notes to send, got the
\* promise of the first, and the notes were sent once.
C23_Witness ==
    \E s, d \in SyncIds :
        /\ s # d
        /\ RunsSync(s)
        /\ syncs[d].op # "none" /\ syncs[d].promise = s
        /\ syncs[s].sent # {}
        /\ syncs[d].sent = {}
        /\ SyncSettled(d)


\* Run s has settled.
RunSettled(s) == RunsSync(s) /\ syncs[s].pc \in {"settled", "done"}

\* A note run s read was read again by a later run of the course.
ReadAgain(s, n) ==
    \E d \in SyncIds : d > s /\ syncs[d].course = syncs[s].course /\ n \in syncs[d].notes

\* C24: a run of syncNotes that rejected did so because the device was offline
\* with notes stored, or because addNotesOnline failed with an error that is
\* not an error of the WebService; it deleted no note, the notes it read were
\* all stored when it settled, and each of them stays stored until a later
\* run of the course reads it.  (The reads and deletions of the local store
\* succeed.)
C24_RejectKeepsNotes ==
    \A s \in SyncIds :
        (RunSettled(s) /\ syncs[s].state = "rejected") =>
            /\ syncs[s].notes # {}
            /\ \/ syncs[s].error = NetworkError /\ syncs[s].sendError = Undefined
               \/ syncs[s].error = syncs[s].sendError /\ ~isWebServiceError(syncs[s].sendError)
            /\ syncs[s].deleted = {}
            /\ syncs[s].notes \subseteq syncs[s].left
            /\ \A n \in syncs[s].notes :
                  n \in offlineNotes[syncs[s].course] \/ ReadAgain(s, n)

\* A run rejected and a later run of the course sent the same notes.
C24_Witness ==
    \E s, d \in SyncIds :
        /\ s < d
        /\ RunSettled(s) /\ syncs[s].state = "rejected"
        /\ syncs[s].sendError # Undefined
        /\ RunsSync(d)
        /\ syncs[d].course = syncs[s].course
        /\ syncs[s].notes \subseteq syncs[d].sent

\* C25: a run whose addNotesOnline failed with an error of the WebService is
\* never rejected; once it has settled it has resolved, its warnings hold that
\* error, it has deleted every note it read, none of them was stored when it
\* settled, and no later run reads any of them.
C25_WebServiceErrorDropsNotes ==
    \A s \in SyncIds :
        (RunsSync(s) /\ syncs[s].sendError \in {ErrorObject("nopermissions", "undefined", "denied"),
                                                ErrorObject("undefined", "warning", "denied"),
                                                ErrorObject("accessexception", "undefined", "denied")}) =>
            /\ syncs[s].state # "rejected"
            /\ syncs[s].pc \in {"deleteNote", "getUserCourse", "settled", "done"}
            /\ RunSettled(s) =>
                  /\ syncs[s].state = "resolved"
                  /\ \E i \in 1..Len(syncs[s].warnings) :
                        syncs[s].warnings[i].error = syncs[s].sendError
                  /\ syncs[s].deleted = syncs[s].notes
                  /\ syncs[s].notes \cap syncs[s].left = {}
            /\ syncs[s].pc \in {"getUserCourse", "settled", "done"} =>
                  /\ syncs[s].notes \cap offlineNotes[syncs[s].course] = {}
                  /\ \A n \in syncs[s].notes : ~ReadAgain(s, n)

\* A run resolved with a warning after an error of the WebService, and a later
\* run of the course found nothing of it to send.
C25_Witness ==
    \E s, d \in SyncIds :
        /\ s < d
        /\ RunSettled(s) /\ syncs[s].state = "resolved"
        /\ syncs[s].sendError # Undefined
        /\ syncs[s].warnings # << >>
        /\ syncs[s].notes # {}
        /\ RunSettled(d) /\ syncs[d].course = syncs[s].course
        /\ syncs[d].notes \cap syncs[s].notes = {}

\* C30: a note leaves the offline store only in the deletion step of a run of
\* its course that read it; so a note stored after the run read the notes is
\* stored when the run settles, and a run never deletes a note it did not read.
C30_DeletesOnlyNotesRead ==
    /\ [](\A s \in SyncIds : syncs[s].deleted \subseteq syncs[s].notes)
    /\ [][\A course \in Courses : \A n \in offlineNotes[course] \ offlineNotes'[course] :
            \E s \in SyncIds :
                /\ syncs[s].course = course
                /\ syncs[s].pc = "deleteNote" /\ syncs'[s].pc # "deleteNote"
                /\ n \in syncs[s].notes]_vars
    /\ [][\A s \in SyncIds :
            (syncs[s].pc # "settled" /\ syncs'[s].pc = "settled") =>
                /\ offlineNotes[syncs[s].course] \ syncs[s].notes \subseteq syncs'[s].left
                /\ syncs'[s].left = offlineNotes'[syncs[s].course]]_vars

\* A note was stored while a run was sending; the run deleted the notes it
\* had read, the new note was stored when it settled, and a later run sent it.
C30_Witness ==
    \E s, d \in SyncIds :
        /\ s < d
        /\ RunSettled(s) /\ syncs[s].state = "resolved"
        /\ syncs[s].deleted # {}
        /\ syncs[s].left # {}
        /\ RunsSync(d) /\ syncs[d].course = syncs[s].course
        /\ syncs[s].left \subseteq syncs[d].sent


\* ----- AddonModForumProvider -----
False == [type |-> "boolean", v |-> "false"]
True == [type |-> "boolean", v |-> "true"]
\* response.discussionid: a number that is not 0.
DiscussionId == Num("discussionid")

NextForumCall(c) ==
    forumCalls[c].op = "none" /\ \A d \in 1..(c - 1) : forumCalls[d].op # "none"

\* The promise returned by call c settles.
ForumSettles(c, outcome, left) ==
    [forumCalls[c] EXCEPT !.pc = "done", !.result = outcome, !.left = left]

\* The discussions stored offline with a timecreated.
StoredAt(time) == {d \in discussions : d.time = time}

\* addNewDiscussion(forumId, name, courseId, subject, message, options, groupId,
\* siteId, timeCreated, allowOffline) is called; timeCreated, when given, is
\* the time of a discussion stored offline that is being edited.
addNewDiscussion(c, timeCreated, allowOffline) ==
    /\ NextForumCall(c)
    /\ timeCreated # 0 => StoredAt(timeCreated) # {}
    /\ forumCalls' = [forumCalls EXCEPT ![c] =
           [NoForumCall EXCEPT !.op = "addNewDiscussion", !.timeCreated = timeCreated,
                               !.allowOffline = allowOffline, !.pc = "discard"]]
    /\ UNCHANGED <<discussions, replies, notesVars>>
    /\ UNCHANGED <<prefetchVars, moduleVars, utilsVars>>

\* discardPromise resolves (deleteNewDiscussion when timeCreated is given) and
\* its then() reads isOnline().
DiscardResolves(c) ==
    /\ forumCalls[c].op = "addNewDiscussion"
    /\ forumCalls[c].pc = "discard"
    /\ discussions' = IF forumCalls[c].timeCreated # 0
                      THEN discussions \ StoredAt(forumCalls[c].timeCreated)
                      ELSE discussions
    /\ forumCalls' = [forumCalls EXCEPT
           ![c].wasOnline = online,
           ![c].pc = IF ~online /\ forumCalls[c].allowOffline THEN "storeOffline"
                     ELSE "addNewDiscussionOnline"]
    /\ UNCHANGED <<replies, notesVars>>
    /\ UNCHANGED <<prefetchVars, moduleVars, utilsVars>>

\* addNewDiscussionOnline resolves with the discussion id.
AddNewDiscussionOnlineResolves(c) ==
    /\ forumCalls[c].pc = "addNewDiscussionOnline"
    /\ online
    /\ forumCalls' = [forumCalls EXCEPT ![c] =
           [ForumSettles(c, Resolved(DiscussionId), 0) EXCEPT !.sent = TRUE]]
    /\ UNCHANGED <<discussions, replies, notesVars>>
    /\ UNCHANGED <<prefetchVars, moduleVars, utilsVars>>

\* addNewDiscussionOnline rejects.
AddNewDiscussionOnlineRejects_fallback(c, error) ==
    /\ forumCalls[c].pc = "addNewDiscussionOnline"
    /\ forumCalls' = [forumCalls EXCEPT ![c].pc = "storeOffline", ![c].sendError = error]
    /\ UNCHANGED <<discussions, replies, notesVars>>
    /\ UNCHANGED <<prefetchVars, moduleVars, utilsVars>>

AddNewDiscussionOnlineRejects(c, error) ==
    /\ forumCalls[c].pc = "addNewDiscussionOnline"
    /\ forumCalls' = [forumCalls EXCEPT ![c] =
           IF ~forumCalls[c].allowOffline \/ isWebServiceError(error)
           THEN [ForumSettles(c, Rejected(error), 0) EXCEPT !.sendError = error]
           ELSE [@ EXCEPT !.pc = "storeOffline", !.sendError = error]]
    /\ UNCHANGED <<discussions, replies, notesVars>>
    /\ UNCHANGED <<prefetchVars, moduleVars, utilsVars>>

\* storeOffline: forumOffline.addNewDiscussion resolves.  The discussion is
\* stored with the timeCreated given, or with the time of the call.
StoreDiscussionResolves(c) ==
    /\ forumCalls[c].op = "addNewDiscussion"
    /\ forumCalls[c].pc = "storeOffline"
    /\ LET time == IF forumCalls[c].timeCreated # 0 THEN forumCalls[c].timeCreated ELSE c
       IN  discussions' = (discussions \ StoredAt(time)) \cup {[time |-> time, writer |-> c]}
    /\ forumCalls' = [forumCalls EXCEPT ![c] =
           [ForumSettles(c, Resolved(False), 0) EXCEPT !.stored = TRUE]]
    /\ UNCHANGED <<replies, notesVars>>
    /\ UNCHANGED <<prefetchVars, moduleVars, utilsVars>>

\* storeOffline of replyPost, reached with the position of the chain: without
\* a forumId it rejects, else it stores the reply.
storeOffline(c) ==
    IF forumCalls[c].forumId = 0 THEN ForumSettles(c, Rejected(NetworkError), replies[forumCalls[c].post])
    ELSE [forumCalls[c] EXCEPT !.pc = "storeOffline"]

\* replyPost(postId, discussionId, forumId, name, courseId, subject, message,
\* options, siteId, allowOffline) is called.
replyPost(c, post, forumId, allowOffline) ==
    /\ NextForumCall(c)
    /\ LET call == [NoForumCall EXCEPT !.op = "replyPost", !.post = post,
                                       !.forumId = forumId, !.allowOffline = allowOffline]
       IN  forumCalls' = [forumCalls EXCEPT ![c] =
               IF ~online /\ allowOffline
               THEN IF forumId = 0 THEN [call EXCEPT !.pc = "done",
                                                     !.result = Rejected(NetworkError),
                                                     !.left = replies[post]]
                    ELSE [call EXCEPT !.pc = "storeOffline"]
               ELSE [call EXCEPT !.pc = "deleteReply"]]
    /\ UNCHANGED <<discussions, replies, notesVars>>
    /\ UNCHANGED <<prefetchVars, moduleVars, utilsVars>>

\* forumOffline.deleteReply(postId) resolves.
DeleteReplyResolves_keep(c) ==
    /\ forumCalls[c].pc = "deleteReply"
    /\ forumCalls' = [forumCalls EXCEPT ![c].pc = "replyPostOnline"]
    /\ UNCHANGED <<discussions, replies, notesVars>>
    /\ UNCHANGED <<prefetchVars, moduleVars, utilsVars>>

DeleteReplyResolves(c) ==
    /\ forumCalls[c].pc = "deleteReply"
    /\ replies' = [replies EXCEPT ![forumCalls[c].post] = 0]
    /\ forumCalls' = [forumCalls EXCEPT ![c].pc = "replyPostOnline"]
    /\ UNCHANGED <<discussions, notesVars>>
    /\ UNCHANGED <<prefetchVars, moduleVars, utilsVars>>

\* replyPostOnline resolves.
ReplyPostOnlineResolves(c) ==
    /\ forumCalls[c].pc = "replyPostOnline"
    /\ online
    /\ forumCalls' = [forumCalls EXCEPT ![c] =
           [ForumSettles(c, Resolved(True), replies[forumCalls[c].post]) EXCEPT !.sent = TRUE]]
    /\ UNCHANGED <<discussions, replies, notesVars>>
    /\ UNCHANGED <<prefetchVars, moduleVars, utilsVars>>

\* replyPostOnline rejects.
ReplyPostOnlineRejects(c, error) ==
    /\ forumCalls[c].pc = "replyPostOnline"
    /\ forumCalls' = [forumCalls EXCEPT ![c] =
           IF forumCalls[c].allowOffline /\ ~isWebServiceError(error)
           THEN storeOffline(c)
           ELSE ForumSettles(c, Rejected(error), replies[forumCalls[c].post])]
    /\ UNCHANGED <<discussions, replies, notesVars>>
    /\ UNCHANGED <<prefetchVars, moduleVars, utilsVars>>

\* storeOffline: forumOffline.replyPost resolves; the store holds one reply
\* for a post.
StoreReplyResolves(c) ==
    /\ forumCalls[c].op = "replyPost"
    /\ forumCalls[c].pc = "storeOffline"
    /\ replies' = [replies EXCEPT ![forumCalls[c].post] = c]
    /\ forumCalls' = [forumCalls EXCEPT ![c] =
           [ForumSettles(c, Resolved(False), c) EXCEPT !.stored = TRUE]]
    /\ UNCHANGED <<discussions, notesVars>>
    /\ UNCHANGED <<prefetchVars, moduleVars, utilsVars>>

NextDiscussion ==
    \/ \E c \in ForumCallIds, timeCreated \in {0} \cup ForumCallIds, allowOffline \in BOOLEAN :
          addNewDiscussion(c, timeCreated, allowOffline)
    \/ \E c \in ForumCallIds : DiscardResolves(c)
    \/ \E c \in ForumCallIds : AddNewDiscussionOnlineResolves(c)
    \/ \E c \in ForumCallIds, error \in SendErrors : AddNewDiscussionOnlineRejects(c, error)
    \/ \E c \in ForumCallIds : StoreDiscussionResolves(c)
    \/ NetworkChange

SpecDiscussion == InitOffline /\ [][NextDiscussion]_vars

NextReply ==
    \/ \E c \in ForumCallIds, post \in Posts, forumId \in {0, 1}, allowOffline \in BOOLEAN :
          replyPost(c, post, forumId, allowOffline)
    \/ \E c \in ForumCallIds : DeleteReplyResolves(c)
    \/ \E c \in ForumCallIds : ReplyPostOnlineResolves(c)
    \/ \E c \in ForumCallIds, error \in SendErrors : ReplyPostOnlineRejects(c, error)
    \/ \E c \in ForumCallIds : StoreReplyResolves(c)
    \/ NetworkChange

SpecReply == InitOffline /\ [][NextReply]_vars


\* ----- forum: what is observed -----
\* Call c of the forum provider has settled.
ForumDone(c) == forumCalls[c].pc = "done"

\* The discussions call c stored offline.
StoredBy(c) == {d \in discussions : d.writer = c}

\* Call c is storing its reply in this step.
StoresReply(c) == ~forumCalls[c].stored /\ forumCalls'[c].stored

\* C26: addNewDiscussion resolves with false exactly when it stored the
\* discussion offline; it stores only with allowOffline set, either without a
\* call of the server because the app was offline, or after the online call
\* failed with an error that is not an error of the WebService; it resolves
\* with the discussion id when the server accepted the discussion; and when it
\* rejects (an error of the WebService, or any failure with allowOffline
\* unset) it has stored nothing.
C26_FalseIffStoredOffline ==
    \A c \in ForumCallIds :
        forumCalls[c].op = "addNewDiscussion" =>
            /\ forumCalls[c].stored <=> forumCalls[c].result = Resolved(False)
            /\ ~forumCalls[c].stored => StoredBy(c) = {}
            /\ forumCalls[c].stored =>
                  /\ forumCalls[c].allowOffline
                  /\ \/ /\ ~forumCalls[c].wasOnline
                        /\ ~forumCalls[c].sent
                        /\ forumCalls[c].sendError = Undefined
                     \/ forumCalls[c].sendError \in
                            {NetworkError,
                             ErrorObject("accessexception", "undefined", TokenExpired),
                             ErrorObject("invalidtoken", "undefined", "denied")}
            /\ (ForumDone(c) /\ forumCalls[c].result.state = "resolved" /\ ~forumCalls[c].stored) =>
                  forumCalls[c].sent /\ forumCalls[c].result = Resolved(DiscussionId)
            /\ forumCalls[c].sent => forumCalls[c].result = Resolved(DiscussionId)
            /\ (ForumDone(c) /\ forumCalls[c].result.state = "rejected") =>
                  /\ ~forumCalls[c].stored
                  /\ forumCalls[c].result = Rejected(forumCalls[c].sendError)
                  /\ \/ ~forumCalls[c].allowOffline
                     \/ forumCalls[c].sendError \in
                            {ErrorObject("nopermissions", "undefined", "denied"),
                             ErrorObject("undefined", "warning", "denied"),
                             ErrorObject("accessexception", "undefined", "denied")}

\* One call stored the discussion after the connection failed, one was
\* rejected with an error of the WebService although allowOffline was set.
C26_Witness ==
    \E c, d \in ForumCallIds :
        /\ forumCalls[c].op = "addNewDiscussion" /\ forumCalls[d].op = "addNewDiscussion"
        /\ forumCalls[c].result = Resolved(False)
        /\ forumCalls[c].sendError = NetworkError
        /\ StoredBy(c) # {}
        /\ forumCalls[d].allowOffline
        /\ forumCalls[d].result.state = "rejected"

====
